---- MODULE Spec2Model ----
(***************************************************************************)
(* EasyVulkan: the resource tracking and lifecycle subsystem.              *)
(*                                                                         *)
(* The model covers ev::ResourceManager (the name-keyed maps, the four     *)
(* registerResource overloads, clearResource, cleanup), the builders'      *)
(* build() entry points that create native objects and register them,      *)
(* CommandPoolManager (command pools, clearCommandBuffers) and the         *)
(* teardown sequence of VulkanContext::cleanup.                            *)
(*                                                                         *)
(* The native API is modelled by a table of native objects: every object   *)
(* the library creates gets a fresh handle, and every destroy/free call    *)
(* made on a handle is counted.                                            *)
(***************************************************************************)
EXTENDS Naturals, Sequences, FiniteSets, TLC

VARIABLES
  native,  \* handle -> [n: destroy/free calls made on it, deps: handles it was created from]
  rm,      \* the ResourceManager: its ten name-keyed maps
  cpm,     \* the CommandPoolManager: m_commandPools and m_singleTimeCommandPool
  alive,   \* TRUE until VulkanContext::cleanup has run
  log,     \* the native destroy/free calls made by the teardown, in order
  last,    \* the last library call and how it ended
  cap,     \* the create calls this run may still make
  keys,    \* the resource names the caller of this run passes
  hist,    \* history: what was registered, swept and displaced so far
  builder, \* the builder object the caller is configuring, with its member fields
  dev,     \* the device: single-time command buffers, fences, staging buffers, the image
  app,     \* the caller of the transfer helpers: its ImageInfo, its data, the handles it holds
  gpu,     \* the physical device a VulkanDevice looks at, and what it found out about it
  sync     \* the SynchronizationManager: its maps and per-frame vectors

vars == <<native, rm, cpm, alive, log, last, cap, keys, hist, builder, dev, app, gpu, sync>>

\* The state of an upload in progress.
transfer == <<dev, app>>

\* The state of VulkanDevice and SynchronizationManager.
managers == <<gpu, sync>>

\* The state outside the resource tracking subsystem.
ext == <<builder, transfer, managers>>

(***************************************************************************)
(* Bounds of the exploration.                                              *)
(***************************************************************************)
\* Calls that create native objects in a run of Spec.
MaxCreates == 2

\* Calls that create native objects in a run of SpecTeardown: one per kind.
MaxTeardownCreates == 12

\* Destroy/free calls counted per native object; further calls are not counted.
MaxDestroys == 2

\* Distinct non-empty resource names in a run of Spec.
MaxNames == 2

\* Creates plus names of a run of Spec: a run with MaxCreates creates uses one
\* name, a run with MaxNames names makes one create.
MaxWork == 3

\* Resource names a caller passes: the empty name (no tracking) and the first k keys.
AllNames == <<"a", "b", "c", "d">>

Names(k) == {""} \cup {AllNames[i] : i \in 1..k}

(***************************************************************************)
(* Native handles.  A handle is <<kind of native object, serial number>>;  *)
(* VK_NULL_HANDLE is Null.                                                 *)
(***************************************************************************)
Null == <<"null", 0>>

Handles == DOMAIN native

HandlesOf(tag) == {h \in Handles : h[1] = tag}

\* The handle the next native create call of this kind returns.
NewHandle(nat, tag) == <<tag, Cardinality({h \in DOMAIN nat : h[1] = tag}) + 1>>

\* vkCreate*/vmaCreate*/vkAllocate*: a new live object.
vkCreate(nat, h, deps) ==
  [x \in DOMAIN nat \cup {h} |->
     IF x = h THEN [n |-> 0, deps |-> deps \ {Null}] ELSE nat[x]]

\* vkDestroy*/vmaDestroy*/vkFree* on one handle; a null handle is ignored.
vkDestroy(nat, h) ==
  IF h \in DOMAIN nat /\ nat[h].n < MaxDestroys THEN [nat EXCEPT ![h].n = @ + 1] ELSE nat

\* The destroy/free calls of a sequence of log entries, applied in order.  A
\* vmaDestroyBuffer/vmaDestroyImage call is entered once for the buffer or image
\* and once for the allocation it releases.
RECURSIVE vkDestroyAll(_, _)
vkDestroyAll(nat, calls) ==
  IF calls = << >> THEN nat
  ELSE vkDestroyAll(vkDestroy(nat, Head(calls).h), Tail(calls))

Call(fn, h) == [call |-> fn, h |-> h]

(***************************************************************************)
(* std::unordered_map<std::string, T>.                                     *)
(***************************************************************************)
EmptyMap == [x \in {} |-> Null]

\* An insertion that keeps the record already stored under the key.
Put_keepsFirst(m, k, v) == [x \in DOMAIN m \cup {k} |-> IF x \in DOMAIN m THEN m[x] ELSE v]

Put(m, k, v) == [x \in DOMAIN m \cup {k} |-> IF x = k THEN v ELSE m[x]]

\* An erase that empties the map.
Erase_clearsMap(m, k) == [x \in {} |-> m[x]]

Erase(m, k) == [x \in DOMAIN m \ {k} |-> m[x]]

\* Every order in which a range-for may visit the keys of an unordered_map.
Orders(S) ==
  {s \in [1..Cardinality(S) -> S] : \A i, j \in 1..Cardinality(S) : i # j => s[i] # s[j]}

(***************************************************************************)
(* VkObjectType tags a caller may pass.  IMAGE_VIEW stands for the tags    *)
(* that no overload and no clearResource case handles.                     *)
(***************************************************************************)
SingleHandleTypes ==
  {"RENDER_PASS", "FRAMEBUFFER", "SAMPLER", "SHADER_MODULE", "DESCRIPTOR_SET_LAYOUT"}

PairTypes == {"PIPELINE", "COMMAND_BUFFER", "DESCRIPTOR_SET"}

ObjectTypes == SingleHandleTypes \cup PairTypes \cup {"BUFFER", "IMAGE", "IMAGE_VIEW"}

\* The native kind behind an object type tag.
TagOf(type) ==
  CASE type = "RENDER_PASS" -> "renderPass"
    [] type = "FRAMEBUFFER" -> "framebuffer"
    [] type = "SAMPLER" -> "sampler"
    [] type = "SHADER_MODULE" -> "shaderModule"
    [] type = "DESCRIPTOR_SET_LAYOUT" -> "descriptorSetLayout"
    [] type = "PIPELINE" -> "pipeline"
    [] type = "COMMAND_BUFFER" -> "commandBuffer"
    [] type = "DESCRIPTOR_SET" -> "descriptorSet"
    [] type = "BUFFER" -> "buffer"
    [] type = "IMAGE" -> "image"
    [] OTHER -> "imageView"

SecondaryTagOf(type) ==
  CASE type = "PIPELINE" -> "pipelineLayout"
    [] type = "COMMAND_BUFFER" -> "commandPool"
    [] OTHER -> "descriptorPool"

Result(op, ret) == [op |-> op, ret |-> ret]

\* No builder object has been obtained from the context.
NoBuilder == [kind |-> "none"]

\* A device on which no single-time command buffer, fence or staging buffer
\* has been created and whose image holds nothing, and a caller that has made
\* no transfer call.
NewDevice ==
  [cb |-> << >>, fence |-> << >>, staging |-> << >>,
   image |-> [layout |-> "UNDEFINED", pixels |-> << >>], buffer |-> << >>]

NoTransfer == [calls |-> 0]

\* No physical device has been looked at, and no SynchronizationManager is in use.
NoPhysicalDevice == [kind |-> "none"]

NoSynchronizationManager == [kind |-> "none"]

(***************************************************************************)
(* ResourceManager                                                         *)
(***************************************************************************)
BufferInfo(buffer, allocation) == [buffer |-> buffer, allocation |-> allocation]

ImageInfo(image, imageView, allocation) ==
  [image |-> image, imageView |-> imageView, allocation |-> allocation]

PipelineInfo(pipeline, pipelineLayout) ==
  [pipeline |-> pipeline, pipelineLayout |-> pipelineLayout]

CommandBufferInfo(commandBuffer, commandPool) ==
  [commandBuffer |-> commandBuffer, commandPool |-> commandPool]

DescriptorSetInfo(descriptorSet, descriptorPool) ==
  [descriptorSet |-> descriptorSet, descriptorPool |-> descriptorPool]

\* ResourceManager::ResourceManager: every map empty.
NewResourceManager ==
  [m_buffers |-> EmptyMap, m_images |-> EmptyMap,
   m_descriptorSetLayouts |-> EmptyMap, m_descriptorSetInfos |-> EmptyMap,
   m_renderPasses |-> EmptyMap, m_framebuffers |-> EmptyMap,
   m_samplers |-> EmptyMap, m_shaderModules |-> EmptyMap,
   m_commandBuffers |-> EmptyMap, m_pipelines |-> EmptyMap]

MapNames == DOMAIN NewResourceManager

\* The map a clearResource case (and the matching registerResource case) uses.
MapOf(type) ==
  CASE type = "BUFFER" -> "m_buffers"
    [] type = "IMAGE" -> "m_images"
    [] type = "DESCRIPTOR_SET_LAYOUT" -> "m_descriptorSetLayouts"
    [] type = "DESCRIPTOR_SET" -> "m_descriptorSetInfos"
    [] type = "RENDER_PASS" -> "m_renderPasses"
    [] type = "FRAMEBUFFER" -> "m_framebuffers"
    [] type = "SAMPLER" -> "m_samplers"
    [] type = "SHADER_MODULE" -> "m_shaderModules"
    [] type = "COMMAND_BUFFER" -> "m_commandBuffers"
    [] type = "PIPELINE" -> "m_pipelines"

Outcome(r, threw) == [rm |-> r, threw |-> threw]

\* The single-handle overload with a default case that returns instead of throwing.
registerResource_silentDefault(r, name, handle, type) ==
  IF name = "" \/ type \notin SingleHandleTypes THEN [rm |-> r, threw |-> FALSE]
  ELSE [rm |-> [r EXCEPT ![MapOf(type)] = Put(@, name, handle)], threw |-> FALSE]

\* registerResource(name, handle, type): RenderPass, Framebuffer, Sampler,
\* ShaderModule, DescriptorSetLayout.
registerResource(r, name, handle, type) ==
  IF name = "" THEN Outcome(r, FALSE)
  ELSE CASE type = "RENDER_PASS" ->
              Outcome([r EXCEPT !.m_renderPasses = Put(@, name, handle)], FALSE)
         [] type = "FRAMEBUFFER" ->
              Outcome([r EXCEPT !.m_framebuffers = Put(@, name, handle)], FALSE)
         [] type = "SAMPLER" ->
              Outcome([r EXCEPT !.m_samplers = Put(@, name, handle)], FALSE)
         [] type = "SHADER_MODULE" ->
              Outcome([r EXCEPT !.m_shaderModules = Put(@, name, handle)], FALSE)
         [] type = "DESCRIPTOR_SET_LAYOUT" ->
              Outcome([r EXCEPT !.m_descriptorSetLayouts = Put(@, name, handle)], FALSE)
         [] OTHER -> Outcome(r, TRUE)

\* registerResource(name, handle, allocation, size, usage, type): Buffer.
registerResourceBuffer(r, name, handle, allocation, type) ==
  IF name = "" THEN Outcome(r, FALSE)
  ELSE IF type = "BUFFER"
       THEN Outcome([r EXCEPT !.m_buffers = Put(@, name, BufferInfo(handle, allocation))], FALSE)
       ELSE Outcome(r, TRUE)

\* registerResource(name, handle, imageView, allocation, width, height, layout, type): Image.
registerResourceImage(r, name, handle, imageView, allocation, type) ==
  IF name = "" THEN Outcome(r, FALSE)
  ELSE CASE type = "IMAGE" ->
              Outcome([r EXCEPT !.m_images =
                         Put(@, name, ImageInfo(handle, imageView, allocation))], FALSE)
         [] OTHER -> Outcome(r, TRUE)

\* registerResource(name, primaryHandle, secondaryHandle, type): Pipeline,
\* CommandBuffer, DescriptorSet.
registerResourcePair(r, name, primaryHandle, secondaryHandle, type) ==
  IF name = "" THEN Outcome(r, FALSE)
  ELSE CASE type = "PIPELINE" ->
              Outcome([r EXCEPT !.m_pipelines =
                         Put(@, name, PipelineInfo(primaryHandle, secondaryHandle))], FALSE)
         [] type = "COMMAND_BUFFER" ->
              Outcome([r EXCEPT !.m_commandBuffers =
                         Put(@, name, CommandBufferInfo(primaryHandle, secondaryHandle))], FALSE)
         [] type = "DESCRIPTOR_SET" ->
              Outcome([r EXCEPT !.m_descriptorSetInfos =
                         Put(@, name, DescriptorSetInfo(primaryHandle, secondaryHandle))], FALSE)
         [] OTHER -> Outcome(r, TRUE)

\* The native calls one clearResource case makes for the record it found.
ClearCalls(r, name, type) ==
  CASE type = "BUFFER" ->
         << Call("vmaDestroyBuffer", r.m_buffers[name].buffer),
            Call("vmaDestroyBuffer", r.m_buffers[name].allocation) >>
    [] type = "RENDER_PASS" -> << Call("vkDestroyRenderPass", r.m_renderPasses[name]) >>
    [] type = "FRAMEBUFFER" -> << Call("vkDestroyFramebuffer", r.m_framebuffers[name]) >>
    [] type = "SAMPLER" -> << Call("vkDestroySampler", r.m_samplers[name]) >>
    [] type = "SHADER_MODULE" -> << Call("vkDestroyShaderModule", r.m_shaderModules[name]) >>
    [] type = "DESCRIPTOR_SET_LAYOUT" ->
         << Call("vkDestroyDescriptorSetLayout", r.m_descriptorSetLayouts[name]) >>
    [] type = "PIPELINE" ->
         << Call("vkDestroyPipeline", r.m_pipelines[name].pipeline),
            Call("vkDestroyPipelineLayout", r.m_pipelines[name].pipelineLayout) >>
    [] type = "COMMAND_BUFFER" ->
         << Call("vkFreeCommandBuffers", r.m_commandBuffers[name].commandBuffer) >>
    [] type = "IMAGE" ->
         << Call("vkDestroyImageView", r.m_images[name].imageView),
            Call("vmaDestroyImage", r.m_images[name].image),
            Call("vmaDestroyImage", r.m_images[name].allocation) >>
    [] type = "DESCRIPTOR_SET" ->
         << Call("vkFreeDescriptorSets", r.m_descriptorSetInfos[name].descriptorSet),
            Call("vkDestroyDescriptorPool", r.m_descriptorSetInfos[name].descriptorPool) >>

\* The `found` flag of clearResource.
ClearFound(r, name, type) ==
  /\ name # ""
  /\ type \in ObjectTypes \ {"IMAGE_VIEW"}
  /\ name \in DOMAIN r[MapOf(type)]

\* clearResource that destroys the resource and forgets to erase its record.
ClearErase_keepsRecord(r, name, type) == r

\* The map of `type` after clearResource erased `name` from it.
ClearErase(r, name, type) == [r EXCEPT ![MapOf(type)] = Erase(@, name)]

\* bool ResourceManager::clearResource(name, type)
clearResource(r, nat, name, type) ==
  IF ClearFound(r, name, type)
  THEN [rm |-> ClearErase(r, name, type),
        native |-> vkDestroyAll(nat, ClearCalls(r, name, type)),
        found |-> TRUE]
  ELSE [rm |-> r, native |-> nat, found |-> FALSE]

RECURSIVE Flatten(_)
Flatten(ss) == IF ss = << >> THEN << >> ELSE Head(ss) \o Flatten(Tail(ss))

\* cleanup() with the render-pass loop moved in front of the framebuffer loop.
CleanupCalls_renderPassesFirst(r, ord) ==
  Flatten(<<
    Flatten([i \in DOMAIN ord.m_renderPasses |->
      << Call("vkDestroyRenderPass", r.m_renderPasses[ord.m_renderPasses[i]]) >>]),
    Flatten([i \in DOMAIN ord.m_framebuffers |->
      << Call("vkDestroyFramebuffer", r.m_framebuffers[ord.m_framebuffers[i]]) >>]),
    Flatten([i \in DOMAIN ord.m_pipelines |->
      << Call("vkDestroyPipeline", r.m_pipelines[ord.m_pipelines[i]].pipeline),
         Call("vkDestroyPipelineLayout", r.m_pipelines[ord.m_pipelines[i]].pipelineLayout) >>]),
    Flatten([i \in DOMAIN ord.m_shaderModules |->
      << Call("vkDestroyShaderModule", r.m_shaderModules[ord.m_shaderModules[i]]) >>]),
    Flatten([i \in DOMAIN ord.m_samplers |->
      << Call("vkDestroySampler", r.m_samplers[ord.m_samplers[i]]) >>]),
    Flatten([i \in DOMAIN ord.m_images |->
      << Call("vkDestroyImageView", r.m_images[ord.m_images[i]].imageView),
         Call("vmaDestroyImage", r.m_images[ord.m_images[i]].image),
         Call("vmaDestroyImage", r.m_images[ord.m_images[i]].allocation) >>]),
    Flatten([i \in DOMAIN ord.m_buffers |->
      << Call("vmaDestroyBuffer", r.m_buffers[ord.m_buffers[i]].buffer),
         Call("vmaDestroyBuffer", r.m_buffers[ord.m_buffers[i]].allocation) >>]),
    Flatten([i \in DOMAIN ord.m_commandBuffers |->
      IF r.m_commandBuffers[ord.m_commandBuffers[i]].commandPool # Null
      THEN << Call("vkFreeCommandBuffers",
                   r.m_commandBuffers[ord.m_commandBuffers[i]].commandBuffer) >>
      ELSE << >>]),
    Flatten([i \in DOMAIN ord.m_descriptorSetInfos |->
      << Call("vkFreeDescriptorSets",
              r.m_descriptorSetInfos[ord.m_descriptorSetInfos[i]].descriptorSet) >>]),
    Flatten([i \in DOMAIN ord.m_descriptorSetInfos |->
      << Call("vkDestroyDescriptorPool",
              r.m_descriptorSetInfos[ord.m_descriptorSetInfos[i]].descriptorPool) >>])
  >>)

\* The native calls of cleanup(), in the order the code makes them; ord[m] is the
\* order in which the range-for over map m visits its keys.
CleanupCalls(r, ord) ==
  Flatten(<<
    Flatten([i \in DOMAIN ord.m_framebuffers |->
      << Call("vkDestroyFramebuffer", r.m_framebuffers[ord.m_framebuffers[i]]) >>]),
    Flatten([i \in DOMAIN ord.m_renderPasses |->
      << Call("vkDestroyRenderPass", r.m_renderPasses[ord.m_renderPasses[i]]) >>]),
    Flatten([i \in DOMAIN ord.m_pipelines |->
      << Call("vkDestroyPipeline", r.m_pipelines[ord.m_pipelines[i]].pipeline),
         Call("vkDestroyPipelineLayout", r.m_pipelines[ord.m_pipelines[i]].pipelineLayout) >>]),
    Flatten([i \in DOMAIN ord.m_shaderModules |->
      << Call("vkDestroyShaderModule", r.m_shaderModules[ord.m_shaderModules[i]]) >>]),
    Flatten([i \in DOMAIN ord.m_samplers |->
      << Call("vkDestroySampler", r.m_samplers[ord.m_samplers[i]]) >>]),
    Flatten([i \in DOMAIN ord.m_images |->
      << Call("vkDestroyImageView", r.m_images[ord.m_images[i]].imageView),
         Call("vmaDestroyImage", r.m_images[ord.m_images[i]].image),
         Call("vmaDestroyImage", r.m_images[ord.m_images[i]].allocation) >>]),
    Flatten([i \in DOMAIN ord.m_buffers |->
      << Call("vmaDestroyBuffer", r.m_buffers[ord.m_buffers[i]].buffer),
         Call("vmaDestroyBuffer", r.m_buffers[ord.m_buffers[i]].allocation) >>]),
    Flatten([i \in DOMAIN ord.m_commandBuffers |->
      IF r.m_commandBuffers[ord.m_commandBuffers[i]].commandPool # Null
      THEN << Call("vkFreeCommandBuffers",
                   r.m_commandBuffers[ord.m_commandBuffers[i]].commandBuffer) >>
      ELSE << >>]),
    Flatten([i \in DOMAIN ord.m_descriptorSetInfos |->
      << Call("vkFreeDescriptorSets",
              r.m_descriptorSetInfos[ord.m_descriptorSetInfos[i]].descriptorSet) >>]),
    Flatten([i \in DOMAIN ord.m_descriptorSetInfos |->
      << Call("vkDestroyDescriptorPool",
              r.m_descriptorSetInfos[ord.m_descriptorSetInfos[i]].descriptorPool) >>])
  >>)

\* The maps cleanup() clears.
CleanupClears(r) ==
  [r EXCEPT !.m_framebuffers = EmptyMap, !.m_renderPasses = EmptyMap,
            !.m_pipelines = EmptyMap, !.m_shaderModules = EmptyMap,
            !.m_samplers = EmptyMap, !.m_images = EmptyMap,
            !.m_buffers = EmptyMap, !.m_commandBuffers = EmptyMap,
            !.m_descriptorSetInfos = EmptyMap]

\* The maps cleanup() iterates.
CleanupMaps == MapNames \ {"m_descriptorSetLayouts"}

\* The visiting orders the range-fors of cleanup() may take over the maps of r.
CleanupOrders(r) ==
  [m_framebuffers : Orders(DOMAIN r.m_framebuffers),
   m_renderPasses : Orders(DOMAIN r.m_renderPasses),
   m_pipelines : Orders(DOMAIN r.m_pipelines),
   m_shaderModules : Orders(DOMAIN r.m_shaderModules),
   m_samplers : Orders(DOMAIN r.m_samplers),
   m_images : Orders(DOMAIN r.m_images),
   m_buffers : Orders(DOMAIN r.m_buffers),
   m_commandBuffers : Orders(DOMAIN r.m_commandBuffers),
   m_descriptorSetInfos : Orders(DOMAIN r.m_descriptorSetInfos)]

\* void ResourceManager::cleanup()
cleanup(r, nat, ord) ==
  [rm |-> CleanupClears(r),
   native |-> vkDestroyAll(nat, CleanupCalls(r, ord)),
   calls |-> CleanupCalls(r, ord)]

(***************************************************************************)
(* History of the registry, kept beside the program's state.               *)
(*   registered: the <<map, name>> entries registered and not yet named in  *)
(*               a clearResource call;                                     *)
(*   swept:      those of them that clearCommandBuffers removed since;      *)
(*   displaced:  the native objects whose record a later registration      *)
(*               under the same name replaced.                             *)
(***************************************************************************)
Entries(r) == {e \in MapNames \X UNION {DOMAIN r[m] : m \in MapNames} : e[2] \in DOMAIN r[e[1]]}

\* The native handles a record of map m holds.
RecordHandles(m, rec) ==
  (CASE m = "m_buffers" -> {rec.buffer, rec.allocation}
     [] m = "m_images" -> {rec.image, rec.imageView, rec.allocation}
     [] m = "m_pipelines" -> {rec.pipeline, rec.pipelineLayout}
     [] m = "m_commandBuffers" -> {rec.commandBuffer, rec.commandPool}
     [] m = "m_descriptorSetInfos" -> {rec.descriptorSet, rec.descriptorPool}
     [] OTHER -> {rec}) \ {Null}

\* Every native handle some record of r holds.
TrackedHandles(r) == UNION {RecordHandles(e[1], r[e[1]][e[2]]) : e \in Entries(r)}

Note ==
  LET gone == Entries(rm) \ Entries(rm')
      written == {e \in Entries(rm') : e \notin Entries(rm) \/ rm'[e[1]][e[2]] # rm[e[1]][e[2]]}
      replaced == written \cap Entries(rm)
  IN hist' =
       IF last'.op = "clearCommandBuffers" THEN [hist EXCEPT !.swept = @ \cup gone]
       ELSE IF last'.op = "VulkanContext::cleanup" THEN hist
       ELSE [registered |-> hist.registered \cup written,
             swept |-> hist.swept \ written,
             displaced |-> hist.displaced \cup
                UNION {RecordHandles(e[1], rm[e[1]][e[2]]) \ RecordHandles(e[1], rm'[e[1]][e[2]])
                         : e \in replaced}]

(***************************************************************************)
(* CommandPoolManager                                                      *)
(***************************************************************************)
\* The records clearCommandBuffers finds for `pool`.
KeysToRemove(r, pool) ==
  {k \in DOMAIN r.m_commandBuffers : r.m_commandBuffers[k].commandPool = pool}

\* void CommandPoolManager::clearCommandBuffers(pool, resourceManager); the
\* null-pool case throws before anything is touched.  The buffers found are
\* freed by one vkFreeCommandBuffers call.
clearCommandBuffers(r, nat, pool) ==
  IF pool = Null THEN [rm |-> r, native |-> nat, threw |-> TRUE]
  ELSE [rm |-> [r EXCEPT !.m_commandBuffers =
                  [k \in DOMAIN @ \ KeysToRemove(r, pool) |-> @[k]]],
        native |-> vkDestroyAll(nat,
                     LET ord == CHOOSE o \in Orders(KeysToRemove(r, pool)) : TRUE IN
                       [i \in DOMAIN ord |->
                          Call("vkFreeCommandBuffers", r.m_commandBuffers[ord[i]].commandBuffer)]),
        threw |-> FALSE]

\* The native calls of CommandPoolManager::cleanup(): every pool of
\* m_commandPools, then the single-time pool.
PoolCleanupCalls(c) ==
  [i \in DOMAIN c.m_commandPools |-> Call("vkDestroyCommandPool", c.m_commandPools[i])]
    \o (IF c.m_singleTimeCommandPool # Null
        THEN << Call("vkDestroyCommandPool", c.m_singleTimeCommandPool) >>
        ELSE << >>)

(***************************************************************************)
(* Builders.  A builder's accumulated configuration is the input cfg of    *)
(* its build action; the fields are the ones build() reads before it       *)
(* creates the native object.                                              *)
(***************************************************************************)
BoolStr(b) == IF b THEN "true" ELSE "false"

ThrowStr(threw) == IF threw THEN "throw" ELSE "ok"

\* A create call is within the run's budget.
CanCreate == cap > 0

\* A call that created native objects uses up one create of the budget.
Spend == cap' = IF native' = native THEN cap ELSE cap - 1

\* A native object of kind `tag` that the caller created without the library
\* (a swapchain image view, a render pass of another module).
External(tag) == <<tag, 0>>

BufferConfigs ==
  [m_size : {0, 4}, m_usage : {0, 1}, m_sharingMode : {"EXCLUSIVE"}, m_queueFamilyIndices : {0}]
    \cup [m_size : {4}, m_usage : {1}, m_sharingMode : {"CONCURRENT"}, m_queueFamilyIndices : {0, 1}]

\* BufferBuilder::validateParameters throws.
BufferBuilder_validateParameters(cfg) ==
  \/ cfg.m_size = 0
  \/ cfg.m_usage = 0
  \/ (cfg.m_sharingMode = "CONCURRENT" /\ cfg.m_queueFamilyIndices = 0)

\* VkBuffer BufferBuilder::build(name, outAllocation); outAllocation is TRUE when
\* the caller passes a pointer and FALSE for the default nullptr.  With a name and
\* no pointer the registration reads *outAllocation through a null pointer: the
\* call either crashes the process or registers whatever allocation it read.
BufferBuilder_build(cfg, name, outAllocation) ==
  /\ alive
  /\ CanCreate
  /\ LET buffer == NewHandle(native, "buffer")
         allocation == NewHandle(native, "allocation")
         made == vkCreate(vkCreate(native, allocation, {}), buffer, {allocation})
     IN
       IF BufferBuilder_validateParameters(cfg)
       THEN /\ last' = Result("BufferBuilder::build", "throw")
            /\ UNCHANGED <<keys, native, rm, alive>>
       ELSE /\ native' = made
            /\ \/ /\ name = "" \/ outAllocation
                  /\ rm' = registerResourceBuffer(rm, name, buffer, allocation, "BUFFER").rm
                  /\ last' = Result("BufferBuilder::build", "ok")
                  /\ UNCHANGED alive
               \/ /\ name # "" /\ ~outAllocation
                  /\ rm' = rm
                  /\ alive' = FALSE
                  /\ last' = Result("BufferBuilder::build", "crash")
               \/ /\ name # "" /\ ~outAllocation
                  /\ \E read \in {h \in DOMAIN made : h[1] = "allocation"} \cup {Null} :
                       rm' = registerResourceBuffer(rm, name, buffer, read, "BUFFER").rm
                  /\ last' = Result("BufferBuilder::build", "ok")
                  /\ UNCHANGED alive
  /\ Spend
  /\ UNCHANGED <<ext, keys, cpm, log>>
  /\ Note

ImageConfigs ==
  [m_format : {"UNDEFINED", "R8G8B8A8"}, m_extent : {0, 1}, m_usage : {0, 1},
   m_sharingMode : {"EXCLUSIVE"}, m_queueFamilyIndices : {0}]
    \cup [m_format : {"R8G8B8A8"}, m_extent : {1}, m_usage : {1},
          m_sharingMode : {"CONCURRENT"}, m_queueFamilyIndices : {0, 1}]

\* ImageBuilder::validateParameters throws.
ImageBuilder_validateParameters(cfg) ==
  \/ cfg.m_format = "UNDEFINED"
  \/ cfg.m_extent = 0
  \/ cfg.m_usage = 0
  \/ (cfg.m_sharingMode = "CONCURRENT" /\ cfg.m_queueFamilyIndices = 0)

\* ImageInfo ImageBuilder::build(name, outAllocation)
ImageBuilder_build(cfg, name) ==
  /\ alive
  /\ CanCreate
  /\ LET image == NewHandle(native, "image")
         allocation == NewHandle(native, "allocation")
         imageView == NewHandle(native, "imageView")
     IN
       IF ImageBuilder_validateParameters(cfg)
       THEN /\ last' = Result("ImageBuilder::build", "throw")
            /\ UNCHANGED <<keys, native, rm>>
       ELSE /\ native' = vkCreate(vkCreate(vkCreate(native, allocation, {}),
                                           image, {allocation}), imageView, {image})
            /\ rm' = registerResourceImage(rm, name, image, imageView, allocation, "IMAGE").rm
            /\ last' = Result("ImageBuilder::build", "ok")
  /\ Spend
  /\ UNCHANGED <<ext, keys, cpm, alive, log>>
  /\ Note

SamplerConfigs ==
  [m_anisotropyEnable : BOOLEAN, aboveDeviceLimit : BOOLEAN, m_unnormalizedCoordinates : BOOLEAN,
   m_compareEnable : {FALSE}, m_mipmapMode : {"LINEAR"}]
    \cup [m_anisotropyEnable : {FALSE}, aboveDeviceLimit : {FALSE},
          m_unnormalizedCoordinates : {TRUE}, m_compareEnable : BOOLEAN,
          m_mipmapMode : {"NEAREST"}]

\* SamplerBuilder::validateParameters throws; aboveDeviceLimit is
\* m_maxAnisotropy > properties.limits.maxSamplerAnisotropy.
SamplerBuilder_validateParameters(cfg) ==
  \/ (cfg.m_anisotropyEnable /\ cfg.aboveDeviceLimit)
  \/ /\ cfg.m_unnormalizedCoordinates
     /\ \/ cfg.m_anisotropyEnable
        \/ cfg.m_compareEnable
        \/ cfg.m_mipmapMode # "NEAREST"

\* VkSampler SamplerBuilder::build(name)
SamplerBuilder_build(cfg, name) ==
  /\ alive
  /\ CanCreate
  /\ LET sampler == NewHandle(native, "sampler") IN
       IF SamplerBuilder_validateParameters(cfg)
       THEN /\ last' = Result("SamplerBuilder::build", "throw")
            /\ UNCHANGED <<keys, native, rm>>
       ELSE /\ native' = vkCreate(native, sampler, {})
            /\ LET o == IF name # "" THEN registerResource(rm, name, sampler, "SAMPLER")
                        ELSE Outcome(rm, FALSE)
               IN /\ rm' = o.rm
                  /\ last' = Result("SamplerBuilder::build", ThrowStr(o.threw))
  /\ Spend
  /\ UNCHANGED <<ext, keys, cpm, alive, log>>
  /\ Note

\* m_code.size() of a ShaderModuleBuilder.
ShaderModuleConfigs == [m_code : {0, 1}]

\* ShaderModuleBuilder::validateParameters throws.
ShaderModuleBuilder_validateParameters(cfg) == cfg.m_code = 0

\* VkShaderModule ShaderModuleBuilder::build(name)
ShaderModuleBuilder_build(cfg, name) ==
  /\ alive
  /\ CanCreate
  /\ LET shaderModule == NewHandle(native, "shaderModule") IN
       IF ShaderModuleBuilder_validateParameters(cfg)
       THEN /\ last' = Result("ShaderModuleBuilder::build", "throw")
            /\ UNCHANGED <<keys, native, rm>>
       ELSE /\ native' = vkCreate(native, shaderModule, {})
            /\ LET o == IF name # "" THEN registerResource(rm, name, shaderModule, "SHADER_MODULE")
                        ELSE Outcome(rm, FALSE)
               IN /\ rm' = o.rm
                  /\ last' = Result("ShaderModuleBuilder::build", ThrowStr(o.threw))
  /\ Spend
  /\ UNCHANGED <<ext, keys, cpm, alive, log>>
  /\ Note

\* Sizes of m_attachments and m_subpasses, and m_inSubpass, of a RenderPassBuilder.
RenderPassConfigs ==
  [m_attachments : {0, 1}, m_subpasses : {0, 1}, m_inSubpass : {FALSE}]
    \cup [m_attachments : {1}, m_subpasses : {1}, m_inSubpass : {TRUE}]

\* RenderPassBuilder::validateState throws.
RenderPassBuilder_validateState(cfg) ==
  \/ cfg.m_attachments = 0
  \/ cfg.m_subpasses = 0
  \/ cfg.m_inSubpass

\* VkRenderPass RenderPassBuilder::build(name)
RenderPassBuilder_build(cfg, name) ==
  /\ alive
  /\ CanCreate
  /\ LET renderPass == NewHandle(native, "renderPass") IN
       IF RenderPassBuilder_validateState(cfg)
       THEN /\ last' = Result("RenderPassBuilder::build", "throw")
            /\ UNCHANGED <<keys, native, rm>>
       ELSE /\ native' = vkCreate(native, renderPass, {})
            /\ LET o == IF name # "" THEN registerResource(rm, name, renderPass, "RENDER_PASS")
                        ELSE Outcome(rm, FALSE)
               IN /\ rm' = o.rm
                  /\ last' = Result("RenderPassBuilder::build", ThrowStr(o.threw))
  /\ Spend
  /\ UNCHANGED <<ext, keys, cpm, alive, log>>
  /\ Note

\* m_attachments is the sequence of attached image views.
FramebufferConfigs ==
  [m_attachments : {<< >>} \cup {<<v>> : v \in HandlesOf("imageView") \cup {External("imageView")}},
   m_width : {0, 8}, m_height : {8}, m_layers : {1}]
    \cup [m_attachments : {<<External("imageView")>>}, m_width : {8}, m_height : {0, 8}, m_layers : {0, 1}]

\* FramebufferBuilder::validateParameters throws.
FramebufferBuilder_validateParameters(cfg) ==
  \/ cfg.m_attachments = << >>
  \/ (cfg.m_width = 0 \/ cfg.m_height = 0)
  \/ cfg.m_layers = 0

\* VkFramebuffer FramebufferBuilder::build(renderPass, name)
FramebufferBuilder_build(cfg, renderPass, name) ==
  /\ alive
  /\ CanCreate
  /\ LET framebuffer == NewHandle(native, "framebuffer") IN
       IF FramebufferBuilder_validateParameters(cfg)
       THEN /\ last' = Result("FramebufferBuilder::build", "throw")
            /\ UNCHANGED <<keys, native, rm>>
       ELSE /\ native' = vkCreate(native, framebuffer,
                                  {renderPass} \cup {cfg.m_attachments[i] : i \in DOMAIN cfg.m_attachments})
            /\ LET o == IF name # "" THEN registerResource(rm, name, framebuffer, "FRAMEBUFFER")
                        ELSE Outcome(rm, FALSE)
               IN /\ rm' = o.rm
                  /\ last' = Result("FramebufferBuilder::build", ThrowStr(o.threw))
  /\ Spend
  /\ UNCHANGED <<ext, keys, cpm, alive, log>>
  /\ Note

\* m_layoutBindings and m_writes of a DescriptorSetBuilder; an entry is
\* <<binding number, descriptor type>>.
DescriptorSetConfigs ==
  { [m_layoutBindings |-> << >>, m_writes |-> << >>],
    [m_layoutBindings |-> << <<0, "UNIFORM_BUFFER">> >>, m_writes |-> << >>],
    [m_layoutBindings |-> << <<0, "UNIFORM_BUFFER">> >>, m_writes |-> << <<0, "UNIFORM_BUFFER">> >>],
    [m_layoutBindings |-> << <<0, "UNIFORM_BUFFER">>, <<0, "SAMPLER">> >>, m_writes |-> << >>],
    [m_layoutBindings |-> << <<0, "UNIFORM_BUFFER">> >>, m_writes |-> << <<1, "UNIFORM_BUFFER">> >>],
    [m_layoutBindings |-> << <<0, "UNIFORM_BUFFER">> >>, m_writes |-> << <<0, "SAMPLER">> >>] }

\* DescriptorSetBuilder::validateBindings throws.  bindingTypes keeps the first
\* type inserted for a binding number.
DescriptorSetBuilder_validateBindings(cfg) ==
  LET b == cfg.m_layoutBindings
      w == cfg.m_writes
  IN \/ b = << >>
     \/ \E i, j \in DOMAIN b : i < j /\ b[i][1] = b[j][1]
     \/ \E k \in DOMAIN w : \A i \in DOMAIN b : b[i][1] # w[k][1]
     \/ \E k \in DOMAIN w : \E i \in DOMAIN b : b[i][1] = w[k][1] /\ b[i][2] # w[k][2]

\* VkDescriptorSetLayout DescriptorSetBuilder::createLayout(name), as a function
\* of the state: the manager and the native table it leaves, and whether it threw.
createLayout(r, nat, cfg, name) ==
  LET layout == NewHandle(nat, "descriptorSetLayout") IN
    IF DescriptorSetBuilder_validateBindings(cfg)
    THEN [rm |-> r, native |-> nat, layout |-> Null, threw |-> TRUE]
    ELSE [rm |-> IF name # ""
                 THEN registerResource(r, name, layout, "DESCRIPTOR_SET_LAYOUT").rm
                 ELSE r,
          native |-> vkCreate(nat, layout, {}),
          layout |-> layout,
          threw |-> FALSE]

\* VkDescriptorSet DescriptorSetBuilder::build(layout, name), as a function of the
\* state.  The set is registered through the single-handle overload.
DescriptorSetBuilder_buildFrom(r, nat, cfg, layout, name) ==
  LET pool == NewHandle(nat, "descriptorPool")
      descriptorSet == NewHandle(nat, "descriptorSet")
      o == IF name # "" THEN registerResource(r, name, descriptorSet, "DESCRIPTOR_SET")
           ELSE Outcome(r, FALSE)
  IN
    IF DescriptorSetBuilder_validateBindings(cfg)
    THEN [rm |-> r, native |-> nat, threw |-> TRUE]
    ELSE [rm |-> o.rm,
          native |-> vkCreate(vkCreate(nat, pool, {}), descriptorSet, {pool}),
          threw |-> o.threw]

DescriptorSetBuilder_createLayout(cfg, name) ==
  /\ alive
  /\ CanCreate
  /\ LET o == createLayout(rm, native, cfg, name) IN
       /\ rm' = o.rm
       /\ native' = o.native
       /\ last' = Result("DescriptorSetBuilder::createLayout", ThrowStr(o.threw))
  /\ Spend
  /\ UNCHANGED <<ext, keys, cpm, alive, log>>
  /\ Note

DescriptorSetBuilder_build(cfg, layout, name) ==
  /\ alive
  /\ CanCreate
  /\ LET o == DescriptorSetBuilder_buildFrom(rm, native, cfg, layout, name) IN
       /\ rm' = o.rm
       /\ native' = o.native
       /\ last' = Result("DescriptorSetBuilder::build", ThrowStr(o.threw))
  /\ Spend
  /\ UNCHANGED <<ext, keys, cpm, alive, log>>
  /\ Note

\* VkDescriptorSet DescriptorSetBuilder::buildWithLayout(name)
DescriptorSetBuilder_buildWithLayout(cfg, name) ==
  /\ alive
  /\ CanCreate
  /\ LET l == createLayout(rm, native, cfg, name \o "_layout")
         o == DescriptorSetBuilder_buildFrom(l.rm, l.native, cfg, l.layout, name)
     IN
       /\ rm' = IF l.threw THEN rm ELSE o.rm
       /\ native' = IF l.threw THEN native ELSE o.native
       /\ last' = Result("DescriptorSetBuilder::buildWithLayout",
                         ThrowStr(l.threw \/ o.threw))
  /\ Spend
  /\ UNCHANGED <<ext, keys, cpm, alive, log>>
  /\ Note

\* void ResourceManager::registerResource2(name, primaryHandle, secondaryHandle, type)
registerResource2(r, name, primaryHandle, secondaryHandle, type) ==
  registerResourcePair(r, name, primaryHandle, secondaryHandle, type)

CommandBufferConfigs ==
  [m_commandPool : {Null} \cup HandlesOf("commandPool"), m_count : {0, 1}]

\* CommandBufferBuilder::validateParameters throws.
CommandBufferBuilder_validateParameters(cfg) ==
  \/ cfg.m_commandPool = Null
  \/ cfg.m_count = 0

\* VkCommandBuffer CommandBufferBuilder::build(name)
CommandBufferBuilder_build(cfg, name) ==
  /\ alive
  /\ CanCreate
  /\ LET commandBuffer == NewHandle(native, "commandBuffer") IN
       IF CommandBufferBuilder_validateParameters(cfg)
       THEN /\ last' = Result("CommandBufferBuilder::build", "throw")
            /\ UNCHANGED <<keys, native, rm>>
       ELSE /\ native' = vkCreate(native, commandBuffer, {cfg.m_commandPool})
            /\ LET o == IF name # ""
                        THEN registerResource2(rm, name, commandBuffer, cfg.m_commandPool,
                                               "COMMAND_BUFFER")
                        ELSE Outcome(rm, FALSE)
               IN /\ rm' = o.rm
                  /\ last' = Result("CommandBufferBuilder::build", ThrowStr(o.threw))
  /\ Spend
  /\ UNCHANGED <<ext, keys, cpm, alive, log>>
  /\ Note

\* m_shaderStage.module and m_layout of a ComputePipelineBuilder.
ComputePipelineConfigs ==
  [module : {Null, External("shaderModule")} \cup HandlesOf("shaderModule"),
   m_layout : {Null} \cup HandlesOf("pipelineLayout")]

\* ComputePipelineBuilder::validateParameters throws, given the layout build()
\* holds when it calls it.
ComputePipelineBuilder_validateParameters(cfg, layout) ==
  \/ cfg.module = Null
  \/ layout = Null

\* VkPipeline ComputePipelineBuilder::build(name): a missing layout is created
\* before the parameters are validated.
ComputePipelineBuilder_build(cfg, name) ==
  /\ alive
  /\ CanCreate
  /\ LET created == cfg.m_layout = Null
         layout == IF created THEN NewHandle(native, "pipelineLayout") ELSE cfg.m_layout
         nat1 == IF created THEN vkCreate(native, layout, {}) ELSE native
         pipeline == NewHandle(nat1, "pipeline")
     IN
       IF ComputePipelineBuilder_validateParameters(cfg, layout)
       THEN /\ native' = nat1
            /\ rm' = rm
            /\ last' = Result("ComputePipelineBuilder::build", "throw")
       ELSE /\ native' = vkCreate(nat1, pipeline, {})
            /\ LET o == IF name # ""
                        THEN registerResource2(rm, name, pipeline, layout, "PIPELINE")
                        ELSE Outcome(rm, FALSE)
               IN /\ rm' = o.rm
                  /\ last' = Result("ComputePipelineBuilder::build", ThrowStr(o.threw))
  /\ Spend
  /\ UNCHANGED <<ext, keys, cpm, alive, log>>
  /\ Note

\* m_shaderStages.size(), m_layout and m_renderPass of a GraphicsPipelineBuilder.
GraphicsPipelineConfigs ==
  [m_shaderStages : {0, 1},
   m_layout : {Null} \cup HandlesOf("pipelineLayout"),
   m_renderPass : {Null, External("renderPass")} \cup HandlesOf("renderPass")]

\* VkPipeline GraphicsPipelineBuilder::build(name)
GraphicsPipelineBuilder_build(cfg, name) ==
  /\ alive
  /\ CanCreate
  /\ LET created == cfg.m_layout = Null
         layout == IF created THEN NewHandle(native, "pipelineLayout") ELSE cfg.m_layout
         nat1 == IF created THEN vkCreate(native, layout, {}) ELSE native
         pipeline == NewHandle(nat1, "pipeline")
     IN
       IF cfg.m_shaderStages = 0
       THEN /\ last' = Result("GraphicsPipelineBuilder::build", "throw")
            /\ UNCHANGED <<keys, native, rm>>
       ELSE IF cfg.m_renderPass = Null
       THEN /\ native' = nat1
            /\ rm' = rm
            /\ last' = Result("GraphicsPipelineBuilder::build", "throw")
       ELSE /\ native' = vkCreate(nat1, pipeline, {})
            /\ LET o == IF name # ""
                        THEN registerResourcePair(rm, name, pipeline, layout, "PIPELINE")
                        ELSE Outcome(rm, FALSE)
               IN /\ rm' = o.rm
                  /\ last' = Result("GraphicsPipelineBuilder::build", ThrowStr(o.threw))
  /\ Spend
  /\ UNCHANGED <<ext, keys, cpm, alive, log>>
  /\ Note

(***************************************************************************)
(* The system: a VulkanContext with its managers, and a caller.            *)
(***************************************************************************)
InitWith(creates, k) ==
  /\ native = vkCreate([x \in {} |-> [n |-> 0, deps |-> {}]], <<"commandPool", 1>>, {})
  /\ rm = NewResourceManager
  /\ cpm = [m_commandPools |-> << >>, m_singleTimeCommandPool |-> <<"commandPool", 1>>]
  /\ alive = TRUE
  /\ log = << >>
  /\ last = Result("VulkanContext::initialize", "ok")
  /\ cap = creates
  /\ hist = [registered |-> {}, swept |-> {}, displaced |-> {}]
  /\ keys = Names(k)
  /\ builder = NoBuilder
  /\ dev = NewDevice
  /\ app = NoTransfer
  /\ gpu = NoPhysicalDevice
  /\ sync = NoSynchronizationManager

Init ==
  \E creates \in 1..MaxCreates, k \in 1..MaxNames :
    /\ creates + k = MaxWork
    /\ InitWith(creates, k)

\* A caller's direct call of the single-handle overload.
RegisterResource(name, handle, type) ==
  /\ alive
  /\ LET o == registerResource(rm, name, handle, type) IN
       /\ rm' = o.rm
       /\ last' = Result("registerResource", ThrowStr(o.threw))
  /\ UNCHANGED <<ext, keys, native, cpm, alive, log, cap>>
  /\ Note

\* A caller's direct call of the buffer overload.
RegisterResourceBuffer(name, handle, allocation, type) ==
  /\ alive
  /\ LET o == registerResourceBuffer(rm, name, handle, allocation, type) IN
       /\ rm' = o.rm
       /\ last' = Result("registerResource", ThrowStr(o.threw))
  /\ UNCHANGED <<ext, keys, native, cpm, alive, log, cap>>
  /\ Note

\* A caller's direct call of the image overload.
RegisterResourceImage(name, handle, imageView, allocation, type) ==
  /\ alive
  /\ LET o == registerResourceImage(rm, name, handle, imageView, allocation, type) IN
       /\ rm' = o.rm
       /\ last' = Result("registerResource", ThrowStr(o.threw))
  /\ UNCHANGED <<ext, keys, native, cpm, alive, log, cap>>
  /\ Note

\* A caller's direct call of the two-handle overload.
RegisterResourcePair(name, primaryHandle, secondaryHandle, type) ==
  /\ alive
  /\ LET o == registerResourcePair(rm, name, primaryHandle, secondaryHandle, type) IN
       /\ rm' = o.rm
       /\ last' = Result("registerResource", ThrowStr(o.threw))
  /\ UNCHANGED <<ext, keys, native, cpm, alive, log, cap>>
  /\ Note

ClearResource(name, type) ==
  /\ alive
  /\ LET o == clearResource(rm, native, name, type) IN
       /\ rm' = o.rm
       /\ native' = o.native
       /\ last' = Result("clearResource", BoolStr(o.found))
  /\ hist' = IF type = "IMAGE_VIEW" THEN hist
             ELSE [hist EXCEPT !.registered = @ \ {<<MapOf(type), name>>},
                               !.swept = @ \ {<<MapOf(type), name>>}]
  /\ UNCHANGED <<ext, keys, cpm, alive, log, cap>>

\* VkCommandPool CommandPoolManager::createCommandPool(queueFamilyIndex, flags)
CreateCommandPool ==
  /\ alive
  /\ CanCreate
  /\ LET commandPool == NewHandle(native, "commandPool") IN
       /\ native' = vkCreate(native, commandPool, {})
       /\ cpm' = [cpm EXCEPT !.m_commandPools = Append(@, commandPool)]
  /\ last' = Result("createCommandPool", "ok")
  /\ Spend
  /\ UNCHANGED <<ext, keys, rm, alive, log>>
  /\ Note

ClearCommandBuffers(pool) ==
  /\ alive
  /\ LET o == clearCommandBuffers(rm, native, pool) IN
       /\ rm' = o.rm
       /\ native' = o.native
       /\ last' = Result("clearCommandBuffers", ThrowStr(o.threw))
  /\ UNCHANGED <<ext, keys, cpm, alive, log, cap>>
  /\ Note

\* VulkanContext::cleanup() resetting the CommandPoolManager before the
\* ResourceManager.
DestroyContext_poolsFirst(ord) ==
  /\ alive
  /\ LET pools == PoolCleanupCalls(cpm)
         o == cleanup(rm, vkDestroyAll(native, pools), ord)
     IN
       /\ rm' = o.rm
       /\ native' = o.native
       /\ log' = pools \o o.calls
  /\ cpm' = [m_commandPools |-> << >>, m_singleTimeCommandPool |-> Null]
  /\ alive' = FALSE
  /\ last' = Result("VulkanContext::cleanup", "ok")
  /\ UNCHANGED <<ext, cap, keys>>
  /\ Note

\* void VulkanContext::cleanup(): the ResourceManager is destroyed, which runs
\* its cleanup(), then the CommandPoolManager, which destroys its pools.
DestroyContext(ord) ==
  /\ alive
  /\ LET o == cleanup(rm, native, ord)
         pools == PoolCleanupCalls(cpm)
     IN
       /\ rm' = o.rm
       /\ native' = vkDestroyAll(o.native, pools)
       /\ log' = o.calls \o pools
  /\ cpm' = [m_commandPools |-> << >>, m_singleTimeCommandPool |-> Null]
  /\ alive' = FALSE
  /\ last' = Result("VulkanContext::cleanup", "ok")
  /\ UNCHANGED <<ext, cap, keys>>
  /\ Note

\* The keys a caller may name: the names it registers under and every key present.
KeysOf(type) == keys \cup (IF type = "IMAGE_VIEW" THEN {} ELSE DOMAIN rm[MapOf(type)])

\* The handles a caller passes to a direct registration: live objects of the
\* kind the tag names, with the allocation, view or pool they were created with.
Live(tag) == {h \in HandlesOf(tag) : native[h].n = 0}

PartsOf(h, tag) == {d \in native[h].deps : d[1] = tag}

ViewsOf(image) == {v \in Live("imageView") : image \in native[v].deps}

SecondaryOf(primaryHandle, type) ==
  IF type = "PIPELINE" THEN Live("pipelineLayout")
  ELSE IF type = "COMMAND_BUFFER" THEN PartsOf(primaryHandle, "commandPool") \cup {Null}
  ELSE PartsOf(primaryHandle, "descriptorPool")

Next ==
  \/ \E name \in keys, type \in ObjectTypes :
       \E handle \in Live(TagOf(type)) : RegisterResource(name, handle, type)
  \/ \E name \in keys, type \in ObjectTypes :
       \E handle \in Live("buffer") : \E allocation \in PartsOf(handle, "allocation") :
         RegisterResourceBuffer(name, handle, allocation, type)
  \/ \E name \in keys, type \in ObjectTypes :
       \E handle \in Live("image") :
         \E imageView \in ViewsOf(handle), allocation \in PartsOf(handle, "allocation") :
           RegisterResourceImage(name, handle, imageView, allocation, type)
  \/ \E name \in keys, type \in ObjectTypes :
       \E primaryHandle \in Live(TagOf(type)) :
         \E secondaryHandle \in SecondaryOf(primaryHandle, type) :
           RegisterResourcePair(name, primaryHandle, secondaryHandle, type)
  \/ \E type \in ObjectTypes : \E name \in KeysOf(type) : ClearResource(name, type)
  \/ CreateCommandPool
  \/ \E pool \in HandlesOf("commandPool") \cup {Null} : ClearCommandBuffers(pool)
  \/ \E cfg \in BufferConfigs, name \in keys, outAllocation \in BOOLEAN :
       BufferBuilder_build(cfg, name, outAllocation)
  \/ \E cfg \in ImageConfigs, name \in keys : ImageBuilder_build(cfg, name)
  \/ \E cfg \in SamplerConfigs, name \in keys : SamplerBuilder_build(cfg, name)
  \/ \E cfg \in ShaderModuleConfigs, name \in keys : ShaderModuleBuilder_build(cfg, name)
  \/ \E cfg \in RenderPassConfigs, name \in keys : RenderPassBuilder_build(cfg, name)
  \/ \E cfg \in FramebufferConfigs, name \in keys :
       \E renderPass \in HandlesOf("renderPass") \cup {Null, External("renderPass")} :
         FramebufferBuilder_build(cfg, renderPass, name)
  \/ \E cfg \in DescriptorSetConfigs, name \in keys : DescriptorSetBuilder_createLayout(cfg, name)
  \/ \E cfg \in DescriptorSetConfigs, name \in keys :
       \E layout \in HandlesOf("descriptorSetLayout") \cup {Null} :
         DescriptorSetBuilder_build(cfg, layout, name)
  \/ \E cfg \in DescriptorSetConfigs, name \in keys : DescriptorSetBuilder_buildWithLayout(cfg, name)
  \/ \E cfg \in CommandBufferConfigs, name \in keys : CommandBufferBuilder_build(cfg, name)
  \/ \E cfg \in ComputePipelineConfigs, name \in keys : ComputePipelineBuilder_build(cfg, name)
  \/ \E cfg \in GraphicsPipelineConfigs, name \in keys : GraphicsPipelineBuilder_build(cfg, name)
  \/ \E ord \in CleanupOrders(rm) : DestroyContext(ord)

Spec == Init /\ [][Next]_vars

(***************************************************************************)
(* A caller that builds one resource of every kind, each tracked under a   *)
(* name or left untracked, and then destroys the context (which it may     *)
(* also do at any earlier point).                                          *)
(***************************************************************************)
InitTeardown == InitWith(MaxTeardownCreates, 1)

After(op) == alive /\ last = Result(op, "ok")

TeardownPool ==
  /\ After("VulkanContext::initialize")
  /\ CreateCommandPool

TeardownCommandBuffer ==
  /\ After("createCommandPool")
  /\ \E cfg \in CommandBufferConfigs, name \in keys :
       /\ cfg.m_commandPool \notin {Null, cpm.m_singleTimeCommandPool}
       /\ ~CommandBufferBuilder_validateParameters(cfg)
       /\ CommandBufferBuilder_build(cfg, name)

\* A command buffer built untracked is registered by the caller with the pool
\* it was allocated from.
TeardownRegisterCommandBuffer ==
  /\ After("CommandBufferBuilder::build")
  /\ DOMAIN rm.m_commandBuffers = {}
  /\ \E name \in keys \ {""}, primaryHandle \in Live("commandBuffer") :
       \E secondaryHandle \in PartsOf(primaryHandle, "commandPool") :
         RegisterResourcePair(name, primaryHandle, secondaryHandle, "COMMAND_BUFFER")

TeardownRenderPass ==
  /\ \/ After("CommandBufferBuilder::build")
     \/ After("registerResource") /\ HandlesOf("descriptorSet") = {}
  /\ \E cfg \in RenderPassConfigs, name \in keys :
       /\ ~RenderPassBuilder_validateState(cfg)
       /\ RenderPassBuilder_build(cfg, name)

TeardownImage ==
  /\ After("RenderPassBuilder::build")
  /\ \E cfg \in ImageConfigs, name \in keys :
       /\ ~ImageBuilder_validateParameters(cfg)
       /\ ImageBuilder_build(cfg, name)

TeardownFramebuffer ==
  /\ After("ImageBuilder::build")
  /\ \E cfg \in FramebufferConfigs, name \in keys, renderPass \in HandlesOf("renderPass") :
       /\ ~FramebufferBuilder_validateParameters(cfg)
       /\ cfg.m_attachments[1] # External("imageView")
       /\ FramebufferBuilder_build(cfg, renderPass, name)

TeardownShaderModule ==
  /\ After("FramebufferBuilder::build")
  /\ \E cfg \in ShaderModuleConfigs, name \in keys :
       /\ ~ShaderModuleBuilder_validateParameters(cfg)
       /\ ShaderModuleBuilder_build(cfg, name)

TeardownGraphicsPipeline ==
  /\ After("ShaderModuleBuilder::build")
  /\ \E cfg \in GraphicsPipelineConfigs, name \in keys :
       /\ cfg.m_shaderStages > 0
       /\ cfg.m_renderPass \in HandlesOf("renderPass")
       /\ GraphicsPipelineBuilder_build(cfg, name)

TeardownComputePipeline ==
  /\ After("ShaderModuleBuilder::build")
  /\ \E cfg \in ComputePipelineConfigs, name \in keys :
       /\ cfg.module \in HandlesOf("shaderModule")
       /\ ComputePipelineBuilder_build(cfg, name)

TeardownSampler ==
  /\ After("GraphicsPipelineBuilder::build") \/ After("ComputePipelineBuilder::build")
  /\ \E cfg \in SamplerConfigs, name \in keys :
       /\ ~SamplerBuilder_validateParameters(cfg)
       /\ SamplerBuilder_build(cfg, name)

TeardownBuffer ==
  /\ After("SamplerBuilder::build")
  /\ \E cfg \in BufferConfigs, name \in keys :
       /\ ~BufferBuilder_validateParameters(cfg)
       /\ BufferBuilder_build(cfg, name, TRUE)

TeardownLayout ==
  /\ After("BufferBuilder::build")
  /\ \E cfg \in DescriptorSetConfigs, name \in keys :
       /\ ~DescriptorSetBuilder_validateBindings(cfg)
       /\ DescriptorSetBuilder_createLayout(cfg, name)

\* The set is built untracked: build() with a name throws.
TeardownDescriptorSet ==
  /\ After("DescriptorSetBuilder::createLayout")
  /\ \E cfg \in DescriptorSetConfigs, layout \in HandlesOf("descriptorSetLayout") :
       /\ ~DescriptorSetBuilder_validateBindings(cfg)
       /\ DescriptorSetBuilder_build(cfg, layout, "")

\* ... and registered by the caller with the pool it was allocated from.
TeardownRegisterSet ==
  /\ After("DescriptorSetBuilder::build")
  /\ \E name \in keys, primaryHandle \in Live("descriptorSet") :
       \E secondaryHandle \in SecondaryOf(primaryHandle, "DESCRIPTOR_SET") :
         RegisterResourcePair(name, primaryHandle, secondaryHandle, "DESCRIPTOR_SET")

TeardownDestroy == \E ord \in CleanupOrders(rm) : DestroyContext(ord)

NextTeardown ==
  \/ TeardownPool
  \/ TeardownCommandBuffer
  \/ TeardownRegisterCommandBuffer
  \/ TeardownRenderPass
  \/ TeardownImage
  \/ TeardownFramebuffer
  \/ TeardownShaderModule
  \/ TeardownGraphicsPipeline
  \/ TeardownComputePipeline
  \/ TeardownSampler
  \/ TeardownBuffer
  \/ TeardownLayout
  \/ TeardownDescriptorSet
  \/ TeardownRegisterSet
  \/ TeardownDestroy

SpecTeardown == InitTeardown /\ [][NextTeardown]_vars

(***************************************************************************)
(* Properties.                                                             *)
(***************************************************************************)
Destroyed == ~alive /\ last.op = "VulkanContext::cleanup"

\* C1: across any sequence of registrations, clearResource calls and the
\* manager's destruction, no allocation is released twice.
C1_NoAllocationReleasedTwice ==
  \A h \in HandlesOf("allocation") : native[h].n <= 1

\* The registered entry a clearResource step names, if it names one.
Cleared == hist.registered \ hist'.registered

\* C2, as stated: once a resource was registered under a non-empty name, the
\* first clearResource(name, type) returns true and every later one, with no
\* registration in between, returns false: a clearResource call returns true
\* exactly when the entry it names was registered since the last clearResource
\* on it.
C2_TrueExactlyOnce ==
  [][last'.op = "clearResource" => (last'.ret = "true" <=> Cleared # {})]_vars

\* C2, amended: a clearResource call returns true exactly when the entry it
\* names was registered since the last clearResource on it and
\* clearCommandBuffers has not removed it since; in every other case it
\* returns false.
C2_TrueOnceUnlessSwept ==
  [][last'.op = "clearResource" =>
       (last'.ret = "true" <=> Cleared \ hist.swept # {})]_vars

\* A clearResource call has returned false after an earlier clearResource
\* destroyed a registered resource (only clearResource destroys an object that
\* is no command buffer while the context lives); nothing is registered any more.
C2_Witness ==
  /\ alive
  /\ last = Result("clearResource", "false")
  /\ hist.registered = {}
  /\ hist.swept = {}
  /\ \E h \in Handles : h[1] # "commandBuffer" /\ native[h].n = 1

\* The place of a native destroy/free call in the order of cleanup(); the
\* command pools, destroyed by the CommandPoolManager afterwards, come last.
Rank(call) ==
  CASE call = "vkDestroyFramebuffer" -> 1
    [] call = "vkDestroyRenderPass" -> 2
    [] call \in {"vkDestroyPipeline", "vkDestroyPipelineLayout"} -> 3
    [] call = "vkDestroyShaderModule" -> 4
    [] call = "vkDestroySampler" -> 5
    [] call \in {"vkDestroyImageView", "vmaDestroyImage"} -> 6
    [] call = "vmaDestroyBuffer" -> 7
    [] call = "vkFreeCommandBuffers" -> 8
    [] call \in {"vkFreeDescriptorSets", "vkDestroyDescriptorPool"} -> 9
    [] call = "vkDestroyCommandPool" -> 10

\* C3: the destruction destroys the tracked resources kind by kind in the order
\* framebuffers, render passes, pipelines, shader modules, samplers, images,
\* buffers, command buffers, descriptor sets and pools: no call on a later kind
\* precedes a call on an earlier kind.
C3_CleanupOrder ==
  Destroyed => \A i, j \in DOMAIN log : i < j => Rank(log[i].call) <= Rank(log[j].call)

\* A destruction that destroyed a tracked resource of every one of the nine kinds.
C3_Witness ==
  /\ Destroyed
  /\ \A k \in 1..9 : \E i \in DOMAIN log : Rank(log[i].call) = k

\* C4: after the manager's destruction every map of the manager is empty,
\* the descriptor set layouts included.
C4_EveryMapEmpty ==
  Destroyed => \A m \in MapNames : DOMAIN rm[m] = {}

Primary(m, rec) ==
  CASE m = "m_buffers" -> rec.buffer
    [] m = "m_images" -> rec.image
    [] m = "m_pipelines" -> rec.pipeline
    [] m = "m_commandBuffers" -> rec.commandBuffer
    [] m = "m_descriptorSetInfos" -> rec.descriptorSet
    [] OTHER -> rec

\* Every record of the registry but the one at <<m, name>> is as it was.
OthersKept(m, name) ==
  /\ Entries(rm') \cup {<<m, name>>} = Entries(rm) \cup {<<m, name>>}
  /\ \A e \in Entries(rm) \ {<<m, name>>} : rm'[e[1]][e[2]] = rm[e[1]][e[2]]

Stored(m, name, rec) ==
  /\ last'.ret = "ok"
  /\ name \in DOMAIN rm'[m]
  /\ rm'[m][name] = rec
  /\ OthersKept(m, name)

Rejected == last'.ret = "throw" /\ rm' = rm

Ignored == last'.ret = "ok" /\ rm' = rm

\* What a registration through an overload that handles the tags `handled`
\* does; an empty name is ignored when emptyIgnored.
Dispatch(emptyIgnored, handled, name, type, rec) ==
  IF emptyIgnored /\ name = "" THEN Ignored
  ELSE IF type \in handled THEN Stored(MapOf(type), name, rec)
  ELSE Rejected

RegistrationsDispatch(emptyIgnored) ==
  /\ \A name \in keys, type \in ObjectTypes : \A handle \in Live(TagOf(type)) :
       RegisterResource(name, handle, type) =>
         Dispatch(emptyIgnored, SingleHandleTypes, name, type, handle)
  /\ \A name \in keys, type \in ObjectTypes :
       \A handle \in Live("buffer") : \A allocation \in PartsOf(handle, "allocation") :
         RegisterResourceBuffer(name, handle, allocation, type) =>
           Dispatch(emptyIgnored, {"BUFFER"}, name, type,
                    [buffer |-> handle, allocation |-> allocation])
  /\ \A name \in keys, type \in ObjectTypes :
       \A handle \in Live("image") :
         \A imageView \in ViewsOf(handle), allocation \in PartsOf(handle, "allocation") :
           RegisterResourceImage(name, handle, imageView, allocation, type) =>
             Dispatch(emptyIgnored, {"IMAGE"}, name, type,
                      [image |-> handle, imageView |-> imageView, allocation |-> allocation])
  /\ \A name \in keys, type \in ObjectTypes :
       \A primaryHandle \in Live(TagOf(type)) :
         \A secondaryHandle \in SecondaryOf(primaryHandle, type) :
           RegisterResourcePair(name, primaryHandle, secondaryHandle, type) =>
             Dispatch(emptyIgnored, PairTypes, name, type,
                      CASE type = "PIPELINE" ->
                             [pipeline |-> primaryHandle, pipelineLayout |-> secondaryHandle]
                        [] type = "COMMAND_BUFFER" ->
                             [commandBuffer |-> primaryHandle, commandPool |-> secondaryHandle]
                        [] OTHER ->
                             [descriptorSet |-> primaryHandle, descriptorPool |-> secondaryHandle])

\* C7, as stated: every registerResource call stores the record in the map of
\* its tag when the overload handles the tag, and throws, adding no record,
\* when it does not.
C7_StoresOrThrows ==
  [][last'.op = "registerResource" => RegistrationsDispatch(FALSE)]_vars

\* C7, amended: a registerResource call with a non-empty name stores the
\* record in the map of its tag when the overload handles the tag, and throws,
\* adding no record, when it does not; a call with an empty name returns
\* without storing anything and without throwing, whatever the tag.
C7_StoresOrThrowsUnlessUnnamed ==
  [][last'.op = "registerResource" => RegistrationsDispatch(TRUE)]_vars

\* A registration under a name has thrown, and one stored its record.
C7_Witness ==
  /\ last = Result("registerResource", "throw")
  /\ Entries(rm) # {}
  /\ \E e \in hist.registered : e[2] # ""

\* The command pools the CommandPoolManager owns.
Pools(c) == ({c.m_singleTimeCommandPool} \cup {c.m_commandPools[i] : i \in DOMAIN c.m_commandPools})
              \ {Null}

\* C8: a name has one record per map; a registration under a used name puts
\* the later resource in the record; no registration or build destroys a
\* native object, and clearResource, clearCommandBuffers and the destruction
\* destroy only objects that a record holds at that moment, so an object
\* whose record was replaced is not destroyed through the registry.
C8_ReplaceKeepsEarlierObject ==
  [][/\ last'.op \notin {"clearResource", "clearCommandBuffers", "VulkanContext::cleanup"} =>
          \A h \in Handles : native'[h] = native[h]
     /\ \A h \in Handles :
          native'[h].n > native[h].n => h \in TrackedHandles(rm) \cup Pools(cpm)
     /\ last'.op = "registerResource" =>
          /\ \A name \in keys \ {""}, type \in SingleHandleTypes :
               \A handle \in Live(TagOf(type)) :
                 RegisterResource(name, handle, type) =>
                   /\ rm'[MapOf(type)][name] = handle
                   /\ DOMAIN rm'[MapOf(type)] = DOMAIN rm[MapOf(type)] \cup {name}
          /\ \A name \in keys \ {""} :
               \A handle \in Live("buffer") : \A allocation \in PartsOf(handle, "allocation") :
                 RegisterResourceBuffer(name, handle, allocation, "BUFFER") =>
                   /\ rm'.m_buffers[name] = [buffer |-> handle, allocation |-> allocation]
                   /\ DOMAIN rm'.m_buffers = DOMAIN rm.m_buffers \cup {name}]_vars

\* The manager was destroyed, and an object whose record a later registration
\* replaced is untracked and was never destroyed.
C8_Witness ==
  /\ Destroyed
  /\ \E h \in hist.displaced : native[h].n = 0

\* build(name) returned the handle it created and, for a non-empty name, left
\* it registered under name in map m; with an empty name the registry is as it was.
BuiltAs(m, tag, name) ==
  /\ last'.ret = "ok"
  /\ NewHandle(native, tag) \in DOMAIN native'
  /\ IF name = "" THEN rm' = rm
     ELSE /\ name \in DOMAIN rm'[m]
          /\ Primary(m, rm'[m][name]) = NewHandle(native, tag)

\* C9: for every builder kind, build(name) with valid required fields returns
\* the created handle and, when the name is not empty, leaves the handle
\* registered under name in the map of its kind; with an empty name nothing
\* is registered.
C9_BuildRegisters ==
  [][/\ last'.op = "BufferBuilder::build" =>
          \A cfg \in BufferConfigs, name \in keys, outAllocation \in BOOLEAN :
            (~BufferBuilder_validateParameters(cfg) /\ BufferBuilder_build(cfg, name, outAllocation))
              => BuiltAs("m_buffers", "buffer", name)
     /\ last'.op = "ImageBuilder::build" =>
          \A cfg \in ImageConfigs, name \in keys :
            (~ImageBuilder_validateParameters(cfg) /\ ImageBuilder_build(cfg, name))
              => BuiltAs("m_images", "image", name)
     /\ last'.op = "SamplerBuilder::build" =>
          \A cfg \in SamplerConfigs, name \in keys :
            (~SamplerBuilder_validateParameters(cfg) /\ SamplerBuilder_build(cfg, name))
              => BuiltAs("m_samplers", "sampler", name)
     /\ last'.op = "ShaderModuleBuilder::build" =>
          \A cfg \in ShaderModuleConfigs, name \in keys :
            (~ShaderModuleBuilder_validateParameters(cfg) /\ ShaderModuleBuilder_build(cfg, name))
              => BuiltAs("m_shaderModules", "shaderModule", name)
     /\ last'.op = "RenderPassBuilder::build" =>
          \A cfg \in RenderPassConfigs, name \in keys :
            (~RenderPassBuilder_validateState(cfg) /\ RenderPassBuilder_build(cfg, name))
              => BuiltAs("m_renderPasses", "renderPass", name)
     /\ last'.op = "FramebufferBuilder::build" =>
          \A cfg \in FramebufferConfigs, name \in keys :
            \A renderPass \in HandlesOf("renderPass") \cup {External("renderPass")} :
              (~FramebufferBuilder_validateParameters(cfg)
                 /\ FramebufferBuilder_build(cfg, renderPass, name))
                => BuiltAs("m_framebuffers", "framebuffer", name)
     /\ last'.op = "CommandBufferBuilder::build" =>
          \A cfg \in CommandBufferConfigs, name \in keys :
            (~CommandBufferBuilder_validateParameters(cfg) /\ CommandBufferBuilder_build(cfg, name))
              => BuiltAs("m_commandBuffers", "commandBuffer", name)
     /\ last'.op = "ComputePipelineBuilder::build" =>
          \A cfg \in ComputePipelineConfigs, name \in keys :
            (cfg.module # Null /\ cfg.m_layout # Null /\ ComputePipelineBuilder_build(cfg, name))
              => BuiltAs("m_pipelines", "pipeline", name)
     /\ last'.op = "GraphicsPipelineBuilder::build" =>
          \A cfg \in GraphicsPipelineConfigs, name \in keys :
            (cfg.m_shaderStages > 0 /\ cfg.m_renderPass # Null
               /\ GraphicsPipelineBuilder_build(cfg, name))
              => BuiltAs("m_pipelines", "pipeline", name)
     /\ last'.op = "DescriptorSetBuilder::build" =>
          \A cfg \in DescriptorSetConfigs, name \in keys :
            \A layout \in HandlesOf("descriptorSetLayout") :
              (~DescriptorSetBuilder_validateBindings(cfg)
                 /\ DescriptorSetBuilder_build(cfg, layout, name))
                => BuiltAs("m_descriptorSetInfos", "descriptorSet", name)
     /\ last'.op = "DescriptorSetBuilder::buildWithLayout" =>
          \A cfg \in DescriptorSetConfigs, name \in keys :
            (~DescriptorSetBuilder_validateBindings(cfg)
               /\ DescriptorSetBuilder_buildWithLayout(cfg, name))
              => BuiltAs("m_descriptorSetInfos", "descriptorSet", name)]_vars

\* build() threw if a required field was unset, and returned if every required
\* field was set and the configuration is otherwise valid.
ThrowsIffUnset(unset, valid) ==
  /\ unset => last'.ret = "throw"
  /\ (~unset /\ valid) => last'.ret = "ok"

\* C10: for all builders, build() with no name throws when a required field
\* has not been set and succeeds once the required fields are set.
C10_ThrowsIffRequiredUnset ==
  [][/\ last'.op = "BufferBuilder::build" =>
          \A cfg \in BufferConfigs, outAllocation \in BOOLEAN :
            BufferBuilder_build(cfg, "", outAllocation) =>
              ThrowsIffUnset(cfg.m_size = 0 \/ cfg.m_usage = 0,
                             ~BufferBuilder_validateParameters(cfg))
     /\ last'.op = "ImageBuilder::build" =>
          \A cfg \in ImageConfigs :
            ImageBuilder_build(cfg, "") =>
              ThrowsIffUnset(cfg.m_format = "UNDEFINED" \/ cfg.m_usage = 0,
                             ~ImageBuilder_validateParameters(cfg))
     /\ last'.op = "SamplerBuilder::build" =>
          \A cfg \in SamplerConfigs :
            SamplerBuilder_build(cfg, "") =>
              ThrowsIffUnset(FALSE, ~SamplerBuilder_validateParameters(cfg))
     /\ last'.op = "ShaderModuleBuilder::build" =>
          \A cfg \in ShaderModuleConfigs :
            ShaderModuleBuilder_build(cfg, "") => ThrowsIffUnset(cfg.m_code = 0, TRUE)
     /\ last'.op = "RenderPassBuilder::build" =>
          \A cfg \in RenderPassConfigs :
            RenderPassBuilder_build(cfg, "") =>
              ThrowsIffUnset(cfg.m_attachments = 0 \/ cfg.m_subpasses = 0,
                             ~RenderPassBuilder_validateState(cfg))
     /\ last'.op = "FramebufferBuilder::build" =>
          \A cfg \in FramebufferConfigs :
            \A renderPass \in HandlesOf("renderPass") \cup {Null, External("renderPass")} :
              FramebufferBuilder_build(cfg, renderPass, "") =>
                ThrowsIffUnset(cfg.m_attachments = << >> \/ cfg.m_width = 0 \/ cfg.m_height = 0
                                 \/ renderPass = Null,
                               ~FramebufferBuilder_validateParameters(cfg))
     /\ last'.op = "CommandBufferBuilder::build" =>
          \A cfg \in CommandBufferConfigs :
            CommandBufferBuilder_build(cfg, "") =>
              ThrowsIffUnset(cfg.m_commandPool = Null,
                             ~CommandBufferBuilder_validateParameters(cfg))
     /\ last'.op = "ComputePipelineBuilder::build" =>
          \A cfg \in ComputePipelineConfigs :
            ComputePipelineBuilder_build(cfg, "") =>
              ThrowsIffUnset(cfg.module = Null \/ cfg.m_layout = Null, TRUE)
     /\ last'.op = "GraphicsPipelineBuilder::build" =>
          \A cfg \in GraphicsPipelineConfigs :
            GraphicsPipelineBuilder_build(cfg, "") =>
              ThrowsIffUnset(cfg.m_shaderStages = 0 \/ cfg.m_renderPass = Null, TRUE)
     /\ last'.op = "DescriptorSetBuilder::build" =>
          \A cfg \in DescriptorSetConfigs :
            \A layout \in HandlesOf("descriptorSetLayout") :
              DescriptorSetBuilder_build(cfg, layout, "") =>
                ThrowsIffUnset(cfg.m_layoutBindings = << >>,
                               ~DescriptorSetBuilder_validateBindings(cfg))]_vars

\* C11: in every builder, a build() call that throws because a required field
\* is missing has created no native object.
C11_ThrowBeforeCreate ==
  [][/\ last'.op = "BufferBuilder::build" =>
          \A cfg \in BufferConfigs, name \in keys, outAllocation \in BOOLEAN :
            (BufferBuilder_validateParameters(cfg) /\ BufferBuilder_build(cfg, name, outAllocation))
              => native' = native
     /\ last'.op = "ImageBuilder::build" =>
          \A cfg \in ImageConfigs, name \in keys :
            (ImageBuilder_validateParameters(cfg) /\ ImageBuilder_build(cfg, name))
              => native' = native
     /\ last'.op = "SamplerBuilder::build" =>
          \A cfg \in SamplerConfigs, name \in keys :
            (SamplerBuilder_validateParameters(cfg) /\ SamplerBuilder_build(cfg, name))
              => native' = native
     /\ last'.op = "ShaderModuleBuilder::build" =>
          \A cfg \in ShaderModuleConfigs, name \in keys :
            (ShaderModuleBuilder_validateParameters(cfg) /\ ShaderModuleBuilder_build(cfg, name))
              => native' = native
     /\ last'.op = "RenderPassBuilder::build" =>
          \A cfg \in RenderPassConfigs, name \in keys :
            (RenderPassBuilder_validateState(cfg) /\ RenderPassBuilder_build(cfg, name))
              => native' = native
     /\ last'.op = "FramebufferBuilder::build" =>
          \A cfg \in FramebufferConfigs, name \in keys :
            \A renderPass \in HandlesOf("renderPass") \cup {Null, External("renderPass")} :
              (FramebufferBuilder_validateParameters(cfg)
                 /\ FramebufferBuilder_build(cfg, renderPass, name))
                => native' = native
     /\ last'.op = "CommandBufferBuilder::build" =>
          \A cfg \in CommandBufferConfigs, name \in keys :
            (CommandBufferBuilder_validateParameters(cfg) /\ CommandBufferBuilder_build(cfg, name))
              => native' = native
     /\ last'.op = "DescriptorSetBuilder::build" =>
          \A cfg \in DescriptorSetConfigs, name \in keys :
            \A layout \in HandlesOf("descriptorSetLayout") \cup {Null} :
              (DescriptorSetBuilder_validateBindings(cfg)
                 /\ DescriptorSetBuilder_build(cfg, layout, name))
                => native' = native
     /\ last'.op = "ComputePipelineBuilder::build" =>
          \A cfg \in ComputePipelineConfigs, name \in keys :
            (cfg.module = Null /\ ComputePipelineBuilder_build(cfg, name))
              => native' = native
     /\ last'.op = "GraphicsPipelineBuilder::build" =>
          \A cfg \in GraphicsPipelineConfigs, name \in keys :
            ((cfg.m_shaderStages = 0 \/ cfg.m_renderPass = Null)
               /\ GraphicsPipelineBuilder_build(cfg, name))
              => native' = native]_vars

(***************************************************************************)
(* The builders' fluent setters.  A run of SpecSetters configures one      *)
(* builder object (a SamplerBuilder, a ShaderModuleBuilder or a            *)
(* RenderPassBuilder) call by call and may build from it.  `builder` holds *)
(* the member fields of that object; `last` holds the setter called, the   *)
(* argument it was given and how it ended ("self": it returned *this).     *)
(***************************************************************************)
MaxAttachments == 1
MaxSubpasses == 2
MaxRefs == 1

\* The state of the resource tracking subsystem.
core == <<native, rm, cpm, alive, log, cap, keys, hist>>

\* What a setter call leaves behind: the builder's fields and whether it threw.
Set(b, threw) == [b |-> b, threw |-> threw]

\* properties.limits.maxSamplerAnisotropy of the modelled device.
maxSamplerAnisotropy == 16

\* Values of maxAnisotropy the caller passes (the float is modelled by an integer).
Anisotropies == {1, 4, 32}

CompareOps == {"NEVER", "LESS"}

\* The member initialisers of SamplerBuilder.
NewSamplerBuilder ==
  [kind |-> "SamplerBuilder", m_magFilter |-> "LINEAR", m_mipmapMode |-> "LINEAR",
   m_anisotropyEnable |-> FALSE, m_maxAnisotropy |-> 1, m_compareEnable |-> FALSE,
   m_compareOp |-> "NEVER", m_unnormalizedCoordinates |-> FALSE]

SamplerBuilder_setMagFilter(b, filter) == Set([b EXCEPT !.m_magFilter = filter], FALSE)

SamplerBuilder_setMipmapMode(b, mode) == Set([b EXCEPT !.m_mipmapMode = mode], FALSE)

SamplerBuilder_setAnisotropy_forcesNearest(b, maxAnisotropy) ==
  Set([b EXCEPT !.m_anisotropyEnable = maxAnisotropy > 1,
                !.m_mipmapMode = "NEAREST"], FALSE)

SamplerBuilder_setAnisotropy(b, maxAnisotropy) ==
  Set([b EXCEPT !.m_anisotropyEnable = maxAnisotropy > 1,
                !.m_maxAnisotropy = maxAnisotropy], FALSE)

SamplerBuilder_setCompareOp(b, compareOp) ==
  Set([b EXCEPT !.m_compareEnable = compareOp # "NEVER",
                !.m_compareOp = compareOp], FALSE)

SamplerBuilder_setUnnormalizedCoordinates(b, unnormalized) ==
  Set([b EXCEPT !.m_unnormalizedCoordinates = unnormalized], FALSE)

\* The fields SamplerBuilder::validateParameters reads.
SamplerConfigOf(b) ==
  [m_anisotropyEnable |-> b.m_anisotropyEnable,
   aboveDeviceLimit |-> b.m_maxAnisotropy > maxSamplerAnisotropy,
   m_unnormalizedCoordinates |-> b.m_unnormalizedCoordinates,
   m_compareEnable |-> b.m_compareEnable,
   m_mipmapMode |-> b.m_mipmapMode]

\* SPIR-V words, and the word arrays the caller holds.
Words == {"w1", "w2"}

WordArrays == {<< >>} \cup {<<w>> : w \in Words} \cup {<<"w1", "w2">>}

\* sizeof(uint32_t)
WordSize == 4

\* Byte counts the caller passes as codeSize for an array of `code` words.
CodeSizes(code) == {n \in 0..(WordSize * Len(code)) : n % 2 = 0}

\* The shader files of the run: a missing file, or the bytes of a file as
\* whole words and the bytes left over.
ShaderFiles ==
  {[open |-> FALSE, words |-> << >>, rest |-> 0]}
    \cup [open : {TRUE}, words : {<< >>, <<"w1">>}, rest : {0, 2}]

NewShaderModuleBuilder == [kind |-> "ShaderModuleBuilder", m_code |-> << >>]

\* ShaderModuleBuilder& setCode(const std::vector<uint32_t>& code)
ShaderModuleBuilder_setCode(b, code) == Set([b EXCEPT !.m_code = code], FALSE)

\* ShaderModuleBuilder& setCode(const void* pCode, size_t codeSize)
ShaderModuleBuilder_setCodeBytes(b, pCode, codeSize) ==
  IF codeSize % WordSize # 0 THEN Set(b, TRUE)
  ELSE Set([b EXCEPT !.m_code = SubSeq(pCode, 1, codeSize \div WordSize)], FALSE)

\* std::vector<uint32_t> loadSPIRVFromFile(filename): the words read, or a throw.
loadSPIRVFromFile(file) ==
  IF ~file.open THEN [threw |-> TRUE, code |-> << >>]
  ELSE IF (WordSize * Len(file.words) + file.rest) % WordSize # 0
       THEN [threw |-> TRUE, code |-> << >>]
       ELSE [threw |-> FALSE, code |-> file.words]

\* ShaderModuleBuilder& loadFromFile(filename)
ShaderModuleBuilder_loadFromFile(b, file) ==
  LET o == loadSPIRVFromFile(file) IN
    IF o.threw THEN Set(b, TRUE) ELSE Set([b EXCEPT !.m_code = o.code], FALSE)

ShaderModuleConfigOf(b) == [m_code |-> Len(b.m_code)]

\* The value of the member m_depthStencilRef before it is first set: it has no
\* initialiser, and the index standing for it is past every attachment list.
Uninitialized == MaxAttachments + 1

\* A VkSubpassDescription as beginSubpass pushes it: no reference array.  A
\* reference array is named by its position in m_allColorRefs, m_allInputRefs
\* or m_allPreserveRefs (0: nullptr); pDepthStencilAttachment is either nullptr
\* or the address of the member m_depthStencilRef.
EmptySubpass ==
  [pColorAttachments |-> 0, pDepthStencilAttachment |-> FALSE,
   pInputAttachments |-> 0, pPreserveAttachments |-> 0]

\* A RenderPassBuilder after construction; m_attachments and m_dependencies
\* are the sizes of the vectors.
NewRenderPassBuilder ==
  [kind |-> "RenderPassBuilder", m_attachments |-> 0, m_subpasses |-> << >>,
   m_dependencies |-> 0, m_colorRefs |-> << >>, m_depthStencilRef |-> Uninitialized,
   m_inputRefs |-> << >>, m_preserveRefs |-> << >>, m_hasDepthStencil |-> FALSE,
   m_inSubpass |-> FALSE, m_allColorRefs |-> << >>, m_allInputRefs |-> << >>,
   m_allPreserveRefs |-> << >>]

\* addColorAttachment and addDepthStencilAttachment: m_attachments.push_back
RenderPassBuilder_addAttachment(b) ==
  Set([b EXCEPT !.m_attachments = @ + 1], FALSE)

RenderPassBuilder_addDependency(b) ==
  Set([b EXCEPT !.m_dependencies = @ + 1], FALSE)

RenderPassBuilder_beginSubpass(b) ==
  IF b.m_inSubpass THEN Set(b, TRUE)
  ELSE Set([b EXCEPT !.m_inSubpass = TRUE, !.m_hasDepthStencil = FALSE,
                     !.m_colorRefs = << >>, !.m_inputRefs = << >>, !.m_preserveRefs = << >>,
                     !.m_subpasses = Append(@, EmptySubpass)], FALSE)

RenderPassBuilder_addColorReference_unchecked(b, attachment) ==
  IF ~b.m_inSubpass THEN Set(b, TRUE)
  ELSE Set([b EXCEPT !.m_colorRefs = Append(@, attachment)], FALSE)

RenderPassBuilder_addColorReference(b, attachment) ==
  IF ~b.m_inSubpass THEN Set(b, TRUE)
  ELSE IF attachment >= b.m_attachments THEN Set(b, TRUE)
  ELSE Set([b EXCEPT !.m_colorRefs = Append(@, attachment)], FALSE)

RenderPassBuilder_setDepthStencilReference(b, attachment) ==
  IF ~b.m_inSubpass THEN Set(b, TRUE)
  ELSE IF attachment >= b.m_attachments THEN Set(b, TRUE)
  ELSE IF b.m_hasDepthStencil THEN Set(b, TRUE)
  ELSE Set([b EXCEPT !.m_depthStencilRef = attachment, !.m_hasDepthStencil = TRUE], FALSE)

RenderPassBuilder_addInputReference(b, attachment) ==
  IF ~b.m_inSubpass THEN Set(b, TRUE)
  ELSE IF attachment >= b.m_attachments THEN Set(b, TRUE)
  ELSE Set([b EXCEPT !.m_inputRefs = Append(@, attachment)], FALSE)

RenderPassBuilder_addPreserveReference(b, attachment) ==
  IF ~b.m_inSubpass THEN Set(b, TRUE)
  ELSE IF attachment >= b.m_attachments THEN Set(b, TRUE)
  ELSE Set([b EXCEPT !.m_preserveRefs = Append(@, attachment)], FALSE)

\* void RenderPassBuilder::finalizeCurrentSubpass()
finalizeCurrentSubpass(b) ==
  LET n == Len(b.m_allColorRefs) + 1
      subpass == b.m_subpasses[Len(b.m_subpasses)]
      done ==
        [subpass EXCEPT
           !.pColorAttachments = IF b.m_colorRefs # << >> THEN n ELSE @,
           !.pDepthStencilAttachment = IF b.m_hasDepthStencil THEN TRUE ELSE @,
           !.pInputAttachments = IF b.m_inputRefs # << >> THEN n ELSE @,
           !.pPreserveAttachments = IF b.m_preserveRefs # << >> THEN n ELSE @]
  IN [b EXCEPT !.m_allColorRefs = Append(@, b.m_colorRefs),
               !.m_allInputRefs = Append(@, b.m_inputRefs),
               !.m_allPreserveRefs = Append(@, b.m_preserveRefs),
               !.m_subpasses = [@ EXCEPT ![Len(b.m_subpasses)] = done]]

RenderPassBuilder_endSubpass_staysOpen(b) ==
  IF ~b.m_inSubpass THEN Set(b, TRUE)
  ELSE Set(finalizeCurrentSubpass(b), FALSE)

RenderPassBuilder_endSubpass(b) ==
  IF ~b.m_inSubpass THEN Set(b, TRUE)
  ELSE Set([finalizeCurrentSubpass(b) EXCEPT !.m_inSubpass = FALSE], FALSE)

\* The fields RenderPassBuilder::validateState reads.
RenderPassConfigOf(b) ==
  [m_attachments |-> b.m_attachments, m_subpasses |-> Len(b.m_subpasses),
   m_inSubpass |-> b.m_inSubpass]

\* The attachment indices the render pass description of `b` holds for its
\* i-th subpass, as vkCreateRenderPass would read them through the pointers.
SubpassReferences(b, i) ==
  LET s == b.m_subpasses[i]
      At(all, p) == IF p = 0 THEN {} ELSE {all[p][j] : j \in 1..Len(all[p])}
  IN At(b.m_allColorRefs, s.pColorAttachments)
       \cup At(b.m_allInputRefs, s.pInputAttachments)
       \cup At(b.m_allPreserveRefs, s.pPreserveAttachments)
       \cup (IF s.pDepthStencilAttachment THEN {b.m_depthStencilRef} ELSE {})

\* One setter call on the builder of the run.
Setter(op, arg, o) ==
  /\ alive
  /\ builder' = o.b
  /\ last' = [op |-> op, ret |-> IF o.threw THEN "throw" ELSE "self", arg |-> arg]
  /\ UNCHANGED <<core, transfer, managers>>

SetMagFilter ==
  /\ builder.kind = "SamplerBuilder"
  /\ \E filter \in {"NEAREST", "LINEAR"} :
       Setter("SamplerBuilder::setMagFilter", filter, SamplerBuilder_setMagFilter(builder, filter))

SetMipmapMode ==
  /\ builder.kind = "SamplerBuilder"
  /\ \E mode \in {"NEAREST", "LINEAR"} :
       Setter("SamplerBuilder::setMipmapMode", mode, SamplerBuilder_setMipmapMode(builder, mode))

SetAnisotropy ==
  /\ builder.kind = "SamplerBuilder"
  /\ \E maxAnisotropy \in Anisotropies :
       Setter("SamplerBuilder::setAnisotropy", maxAnisotropy,
              SamplerBuilder_setAnisotropy(builder, maxAnisotropy))

SetCompareOp ==
  /\ builder.kind = "SamplerBuilder"
  /\ \E compareOp \in CompareOps :
       Setter("SamplerBuilder::setCompareOp", compareOp,
              SamplerBuilder_setCompareOp(builder, compareOp))

SetUnnormalizedCoordinates ==
  /\ builder.kind = "SamplerBuilder"
  /\ \E unnormalized \in BOOLEAN :
       Setter("SamplerBuilder::setUnnormalizedCoordinates", unnormalized,
              SamplerBuilder_setUnnormalizedCoordinates(builder, unnormalized))

BuildSampler ==
  /\ builder.kind = "SamplerBuilder"
  /\ \E name \in keys : SamplerBuilder_build(SamplerConfigOf(builder), name)

SetCode ==
  /\ builder.kind = "ShaderModuleBuilder"
  /\ \E code \in WordArrays :
       Setter("ShaderModuleBuilder::setCode", code, ShaderModuleBuilder_setCode(builder, code))

SetCodeBytes ==
  /\ builder.kind = "ShaderModuleBuilder"
  /\ \E pCode \in WordArrays : \E codeSize \in CodeSizes(pCode) :
       Setter("ShaderModuleBuilder::setCode(pCode, codeSize)", <<pCode, codeSize>>,
              ShaderModuleBuilder_setCodeBytes(builder, pCode, codeSize))

LoadFromFile ==
  /\ builder.kind = "ShaderModuleBuilder"
  /\ \E file \in ShaderFiles :
       Setter("ShaderModuleBuilder::loadFromFile", file,
              ShaderModuleBuilder_loadFromFile(builder, file))

BuildShaderModule ==
  /\ builder.kind = "ShaderModuleBuilder"
  /\ \E name \in keys : ShaderModuleBuilder_build(ShaderModuleConfigOf(builder), name)

\* Attachment indices the caller passes: every valid index and the first
\* indices past the end of the largest attachment list.
AttachmentIndices == 0..MaxAttachments

AddAttachment ==
  /\ builder.kind = "RenderPassBuilder"
  /\ builder.m_attachments < MaxAttachments
  /\ \E op \in {"RenderPassBuilder::addColorAttachment",
                "RenderPassBuilder::addDepthStencilAttachment"} :
       Setter(op, "format", RenderPassBuilder_addAttachment(builder))

AddDependency ==
  /\ builder.kind = "RenderPassBuilder"
  /\ builder.m_dependencies < MaxRefs
  /\ Setter("RenderPassBuilder::addDependency", "dependency",
            RenderPassBuilder_addDependency(builder))

BeginSubpass ==
  /\ builder.kind = "RenderPassBuilder"
  /\ Len(builder.m_subpasses) < MaxSubpasses \/ builder.m_inSubpass
  /\ Setter("RenderPassBuilder::beginSubpass", "GRAPHICS",
            RenderPassBuilder_beginSubpass(builder))

AddColorReference ==
  /\ builder.kind = "RenderPassBuilder"
  /\ \E attachment \in AttachmentIndices :
       /\ Len(builder.m_colorRefs) < MaxRefs
       /\ Setter("RenderPassBuilder::addColorReference", attachment,
                 RenderPassBuilder_addColorReference(builder, attachment))

SetDepthStencilReference ==
  /\ builder.kind = "RenderPassBuilder"
  /\ \E attachment \in AttachmentIndices :
       Setter("RenderPassBuilder::setDepthStencilReference", attachment,
              RenderPassBuilder_setDepthStencilReference(builder, attachment))

AddInputReference ==
  /\ builder.kind = "RenderPassBuilder"
  /\ \E attachment \in AttachmentIndices :
       /\ Len(builder.m_inputRefs) < MaxRefs
       /\ Setter("RenderPassBuilder::addInputReference", attachment,
                 RenderPassBuilder_addInputReference(builder, attachment))

AddPreserveReference ==
  /\ builder.kind = "RenderPassBuilder"
  /\ \E attachment \in AttachmentIndices :
       /\ Len(builder.m_preserveRefs) < MaxRefs
       /\ Setter("RenderPassBuilder::addPreserveReference", attachment,
                 RenderPassBuilder_addPreserveReference(builder, attachment))

EndSubpass ==
  /\ builder.kind = "RenderPassBuilder"
  /\ Setter("RenderPassBuilder::endSubpass", "none", RenderPassBuilder_endSubpass(builder))

BuildRenderPass ==
  /\ builder.kind = "RenderPassBuilder"
  /\ \E name \in keys : RenderPassBuilder_build(RenderPassConfigOf(builder), name)

\* The caller obtains one fresh builder from an initialized context.
InitSetters ==
  /\ native = vkCreate([x \in {} |-> [n |-> 0, deps |-> {}]], <<"commandPool", 1>>, {})
  /\ rm = NewResourceManager
  /\ cpm = [m_commandPools |-> << >>, m_singleTimeCommandPool |-> <<"commandPool", 1>>]
  /\ alive = TRUE
  /\ log = << >>
  /\ last = Result("VulkanContext::initialize", "ok")
  /\ cap = 1
  /\ hist = [registered |-> {}, swept |-> {}, displaced |-> {}]
  /\ keys = Names(1)
  /\ builder \in {NewSamplerBuilder, NewShaderModuleBuilder, NewRenderPassBuilder}
  /\ dev = NewDevice
  /\ app = NoTransfer
  /\ gpu = NoPhysicalDevice
  /\ sync = NoSynchronizationManager

NextSetters ==
  \/ SetMagFilter
  \/ SetMipmapMode
  \/ SetAnisotropy
  \/ SetCompareOp
  \/ SetUnnormalizedCoordinates
  \/ BuildSampler
  \/ SetCode
  \/ SetCodeBytes
  \/ LoadFromFile
  \/ BuildShaderModule
  \/ AddAttachment
  \/ AddDependency
  \/ BeginSubpass
  \/ AddColorReference
  \/ SetDepthStencilReference
  \/ AddInputReference
  \/ AddPreserveReference
  \/ EndSubpass
  \/ BuildRenderPass

SpecSetters == InitSetters /\ [][NextSetters]_vars

(***************************************************************************)
(* Properties of the builders' setters.                                    *)
(***************************************************************************)

\* The step is a call of a setter.
SetterCall == "arg" \in DOMAIN last' /\ <<last', builder'>> # <<last, builder>>

\* The member fields of the builder the step changed.
Changed == {f \in DOMAIN builder : builder'[f] # builder[f]}

\* A subpass of the builder has been begun and not ended: it has a
\* description in m_subpasses and no reference arrays in m_allColorRefs yet.
SubpassOpen(b) == Len(b.m_subpasses) > Len(b.m_allColorRefs)

\* The member fields each setter configures.
Configures(op) ==
  CASE op = "SamplerBuilder::setMagFilter" -> {"m_magFilter"}
    [] op = "SamplerBuilder::setMipmapMode" -> {"m_mipmapMode"}
    [] op = "SamplerBuilder::setAnisotropy" -> {"m_anisotropyEnable", "m_maxAnisotropy"}
    [] op = "SamplerBuilder::setCompareOp" -> {"m_compareEnable", "m_compareOp"}
    [] op = "SamplerBuilder::setUnnormalizedCoordinates" -> {"m_unnormalizedCoordinates"}
    [] op \in {"ShaderModuleBuilder::setCode", "ShaderModuleBuilder::setCode(pCode, codeSize)",
               "ShaderModuleBuilder::loadFromFile"} -> {"m_code"}
    [] op \in {"RenderPassBuilder::addColorAttachment",
               "RenderPassBuilder::addDepthStencilAttachment"} -> {"m_attachments"}
    [] op = "RenderPassBuilder::addDependency" -> {"m_dependencies"}
    [] op = "RenderPassBuilder::beginSubpass" ->
         {"m_subpasses", "m_inSubpass", "m_hasDepthStencil", "m_colorRefs", "m_inputRefs",
          "m_preserveRefs"}
    [] op = "RenderPassBuilder::addColorReference" -> {"m_colorRefs"}
    [] op = "RenderPassBuilder::setDepthStencilReference" ->
         {"m_depthStencilRef", "m_hasDepthStencil"}
    [] op = "RenderPassBuilder::addInputReference" -> {"m_inputRefs"}
    [] op = "RenderPassBuilder::addPreserveReference" -> {"m_preserveRefs"}
    [] op = "RenderPassBuilder::endSubpass" ->
         {"m_subpasses", "m_inSubpass", "m_allColorRefs", "m_allInputRefs", "m_allPreserveRefs"}

\* The calls a setter is documented to reject: the argument, or the state of
\* the builder it is called in.
Rejects(op, b, arg) ==
  CASE op = "ShaderModuleBuilder::setCode(pCode, codeSize)" -> arg[2] % 4 # 0
    [] op = "ShaderModuleBuilder::loadFromFile" ->
         ~arg.open \/ (4 * Len(arg.words) + arg.rest) % 4 # 0
    [] op = "RenderPassBuilder::beginSubpass" -> SubpassOpen(b)
    [] op = "RenderPassBuilder::endSubpass" -> ~SubpassOpen(b)
    [] op \in {"RenderPassBuilder::addColorReference", "RenderPassBuilder::addInputReference",
               "RenderPassBuilder::addPreserveReference"} ->
         ~SubpassOpen(b) \/ arg >= b.m_attachments
    [] op = "RenderPassBuilder::setDepthStencilReference" ->
         ~SubpassOpen(b) \/ arg >= b.m_attachments \/ b.m_hasDepthStencil
    [] OTHER -> FALSE

RenderPassBuild == last'.op = "RenderPassBuilder::build" /\ vars' # vars

\* C17: RenderPassBuilder accepts only well-bracketed subpass sequences:
\* endSubpass throws unless a subpass is open (also after a matched
\* begin/end pair), beginSubpass throws while a subpass is open, build throws
\* while a subpass is open, and at most one subpass is ever open.
C17_WellBracketed ==
  [][/\ (SetterCall /\ last'.op = "RenderPassBuilder::endSubpass")
          => (last'.ret = "throw" <=> ~SubpassOpen(builder))
     /\ (SetterCall /\ last'.op = "RenderPassBuilder::beginSubpass")
          => (last'.ret = "throw" <=> SubpassOpen(builder))
     /\ (RenderPassBuild /\ SubpassOpen(builder)) => last'.ret = "throw"
     /\ builder'.kind = "RenderPassBuilder"
          => /\ Len(builder'.m_allColorRefs) <= Len(builder'.m_subpasses)
             /\ Len(builder'.m_subpasses) <= Len(builder'.m_allColorRefs) + 1]_vars

\* endSubpass has thrown after a matched begin/end pair: one subpass was
\* begun and ended, and none is open.
C17_Witness ==
  /\ builder.kind = "RenderPassBuilder"
  /\ last = [op |-> "RenderPassBuilder::endSubpass", ret |-> "throw", arg |-> "none"]
  /\ Len(builder.m_subpasses) = 1
  /\ Len(builder.m_allColorRefs) = 1
  /\ ~builder.m_inSubpass

\* The reference setters of RenderPassBuilder.
ReferenceSetters ==
  {"RenderPassBuilder::addColorReference", "RenderPassBuilder::setDepthStencilReference",
   "RenderPassBuilder::addInputReference", "RenderPassBuilder::addPreserveReference"}

\* Every attachment index the builder holds: in the reference lists of the
\* subpass being described and in the descriptions of the subpasses ended.
RecordedReferences(b) ==
  {b.m_colorRefs[j] : j \in 1..Len(b.m_colorRefs)}
    \cup {b.m_inputRefs[j] : j \in 1..Len(b.m_inputRefs)}
    \cup {b.m_preserveRefs[j] : j \in 1..Len(b.m_preserveRefs)}
    \cup (IF b.m_hasDepthStencil THEN {b.m_depthStencilRef} ELSE {})
    \cup UNION {SubpassReferences(b, i) : i \in 1..Len(b.m_subpasses)}

MaxCalls == 3

Layouts ==
  {"UNDEFINED", "GENERAL", "COLOR_ATTACHMENT_OPTIMAL", "SHADER_READ_ONLY_OPTIMAL",
   "TRANSFER_SRC_OPTIMAL", "TRANSFER_DST_OPTIMAL", "PREINITIALIZED", "PRESENT_SRC_KHR",
   "ATTACHMENT_OPTIMAL_KHR"}

\* The native calls whose status the step may see fail.
NativeCalls ==
  {"vkAllocateCommandBuffers", "vkBeginCommandBuffer", "vkEndCommandBuffer", "vkCreateFence",
   "vkQueueSubmit", "vkWaitForFences", "vkQueueWaitIdle", "vmaCreateBuffer", "vmaMapMemory",
   "vmaCreateImage", "vkCreateImageView"}

Failures == NativeCalls \cup {"none"}

\* The native calls of CommandUtils' single-time command buffers.
SingleTimeFailures ==
  {"none", "vkAllocateCommandBuffers", "vkBeginCommandBuffer", "vkEndCommandBuffer",
   "vkCreateFence", "vkQueueSubmit", "vkWaitForFences"}

\* A VkImageMemoryBarrier with the stages of its vkCmdPipelineBarrier call.
Barrier(old, new, srcAccessMask, dstAccessMask, sourceStage, destinationStage) ==
  [cmd |-> "vkCmdPipelineBarrier", oldLayout |-> old, newLayout |-> new,
   srcAccessMask |-> srcAccessMask, dstAccessMask |-> dstAccessMask,
   sourceStage |-> sourceStage, destinationStage |-> destinationStage]

\* The else branch of a case table: throw std::runtime_error.
Unsupported == [cmd |-> "throw"]

\* The case table of transitionImageLayoutWithoutCommandBuffer.
Cases_WithoutCommandBuffer(oldLayout, newLayout) ==
  IF oldLayout = "UNDEFINED" /\ newLayout = "TRANSFER_DST_OPTIMAL"
  THEN Barrier(oldLayout, newLayout, {}, {"TRANSFER_WRITE"}, "TOP_OF_PIPE", "TRANSFER")
  ELSE IF oldLayout = "TRANSFER_DST_OPTIMAL" /\ newLayout = "SHADER_READ_ONLY_OPTIMAL"
  THEN Barrier(oldLayout, newLayout, {"TRANSFER_WRITE"}, {"SHADER_READ"},
               "TRANSFER", "FRAGMENT_SHADER")
  ELSE IF oldLayout = "UNDEFINED" /\ newLayout = "GENERAL"
  THEN Barrier(oldLayout, newLayout, {}, {"SHADER_READ", "SHADER_WRITE"},
               "TOP_OF_PIPE", "COMPUTE_SHADER")
  ELSE IF oldLayout = "GENERAL" /\ newLayout = "SHADER_READ_ONLY_OPTIMAL"
  THEN Barrier(oldLayout, newLayout, {"SHADER_WRITE"}, {"SHADER_READ"},
               "COMPUTE_SHADER", "FRAGMENT_SHADER")
  ELSE IF oldLayout = "SHADER_READ_ONLY_OPTIMAL" /\ newLayout = "GENERAL"
  THEN Barrier(oldLayout, newLayout, {"SHADER_READ"}, {"SHADER_READ", "SHADER_WRITE"},
               "FRAGMENT_SHADER", "COMPUTE_SHADER")
  ELSE IF oldLayout = "UNDEFINED" /\ newLayout = "COLOR_ATTACHMENT_OPTIMAL"
  THEN Barrier(oldLayout, newLayout, {}, {"COLOR_ATTACHMENT_WRITE"},
               "TOP_OF_PIPE", "COLOR_ATTACHMENT_OUTPUT")
  ELSE Unsupported

\* A case table in which every pair is supported.
Cases_transitionImageLayout_acceptsAll(oldLayout, newLayout) ==
  Barrier(oldLayout, newLayout, {}, {"SHADER_READ"}, "TOP_OF_PIPE", "FRAGMENT_SHADER")

\* The case table of transitionImageLayout.
Cases_transitionImageLayout(oldLayout, newLayout) ==
  IF oldLayout = "UNDEFINED" /\ newLayout = "TRANSFER_DST_OPTIMAL"
  THEN Barrier(oldLayout, newLayout, {}, {"TRANSFER_WRITE"}, "TOP_OF_PIPE", "TRANSFER")
  ELSE IF oldLayout = "TRANSFER_DST_OPTIMAL" /\ newLayout = "SHADER_READ_ONLY_OPTIMAL"
  THEN Barrier(oldLayout, newLayout, {"TRANSFER_WRITE"}, {"SHADER_READ"},
               "TRANSFER", "FRAGMENT_SHADER")
  ELSE IF oldLayout = "UNDEFINED" /\ newLayout = "GENERAL"
  THEN Barrier(oldLayout, newLayout, {}, {"SHADER_READ", "SHADER_WRITE"},
               "TOP_OF_PIPE", "COMPUTE_SHADER")
  ELSE IF oldLayout = "GENERAL" /\ newLayout = "SHADER_READ_ONLY_OPTIMAL"
  THEN Barrier(oldLayout, newLayout, {"SHADER_WRITE"}, {"SHADER_READ"},
               "COMPUTE_SHADER", "FRAGMENT_SHADER")
  ELSE IF oldLayout = "SHADER_READ_ONLY_OPTIMAL" /\ newLayout = "GENERAL"
  THEN Barrier(oldLayout, newLayout, {"SHADER_READ"}, {"SHADER_READ", "SHADER_WRITE"},
               "FRAGMENT_SHADER", "COMPUTE_SHADER")
  ELSE IF oldLayout = "UNDEFINED" /\ newLayout = "COLOR_ATTACHMENT_OPTIMAL"
  THEN Barrier(oldLayout, newLayout, {}, {"COLOR_ATTACHMENT_WRITE"},
               "TOP_OF_PIPE", "COLOR_ATTACHMENT_OUTPUT")
  ELSE IF oldLayout = "ATTACHMENT_OPTIMAL_KHR" /\ newLayout = "SHADER_READ_ONLY_OPTIMAL"
  THEN Barrier(oldLayout, newLayout, {"COLOR_ATTACHMENT_WRITE"}, {"SHADER_READ"},
               "COLOR_ATTACHMENT_OUTPUT", "FRAGMENT_SHADER")
  ELSE IF oldLayout = "UNDEFINED" /\ newLayout = "SHADER_READ_ONLY_OPTIMAL"
  THEN Barrier(oldLayout, newLayout, {}, {"SHADER_READ"}, "TOP_OF_PIPE", "FRAGMENT_SHADER")
  ELSE IF oldLayout = "COLOR_ATTACHMENT_OPTIMAL" /\ newLayout = "SHADER_READ_ONLY_OPTIMAL"
  THEN Barrier(oldLayout, newLayout, {}, {"SHADER_READ"}, "TOP_OF_PIPE", "FRAGMENT_SHADER")
  ELSE IF oldLayout = "PRESENT_SRC_KHR" /\ newLayout = "TRANSFER_SRC_OPTIMAL"
  THEN Barrier(oldLayout, newLayout, {"COLOR_ATTACHMENT_WRITE"}, {"TRANSFER_READ"},
               "COLOR_ATTACHMENT_OUTPUT", "TRANSFER")
  ELSE IF oldLayout = "TRANSFER_SRC_OPTIMAL" /\ newLayout = "PRESENT_SRC_KHR"
  THEN Barrier(oldLayout, newLayout, {"TRANSFER_READ"}, {"COLOR_ATTACHMENT_WRITE"},
               "TRANSFER", "COLOR_ATTACHMENT_OUTPUT")
  ELSE IF oldLayout = "TRANSFER_DST_OPTIMAL" /\ newLayout = "TRANSFER_SRC_OPTIMAL"
  THEN Barrier(oldLayout, newLayout, {"TRANSFER_WRITE"}, {"TRANSFER_READ"},
               "TRANSFER", "TRANSFER")
  ELSE Unsupported

\* The case table of transitionImageLayoutWithInfo; oldLayout is imageInfo.layout.
Cases_WithInfo(oldLayout, newLayout) ==
  IF oldLayout = "UNDEFINED" /\ newLayout = "TRANSFER_DST_OPTIMAL"
  THEN Barrier(oldLayout, newLayout, {}, {"TRANSFER_WRITE"}, "TOP_OF_PIPE", "TRANSFER")
  ELSE IF oldLayout = "TRANSFER_DST_OPTIMAL" /\ newLayout = "SHADER_READ_ONLY_OPTIMAL"
  THEN Barrier(oldLayout, newLayout, {"TRANSFER_WRITE"}, {"SHADER_READ"},
               "TRANSFER", "FRAGMENT_SHADER")
  ELSE IF oldLayout = "UNDEFINED" /\ newLayout = "GENERAL"
  THEN Barrier(oldLayout, newLayout, {}, {"SHADER_READ", "SHADER_WRITE"},
               "TOP_OF_PIPE", "COMPUTE_SHADER")
  ELSE IF oldLayout = "GENERAL" /\ newLayout = "SHADER_READ_ONLY_OPTIMAL"
  THEN Barrier(oldLayout, newLayout, {"SHADER_WRITE"}, {"SHADER_READ"},
               "COMPUTE_SHADER", "FRAGMENT_SHADER")
  ELSE IF oldLayout = "SHADER_READ_ONLY_OPTIMAL" /\ newLayout = "GENERAL"
  THEN Barrier(oldLayout, newLayout, {"SHADER_READ"}, {"SHADER_READ", "SHADER_WRITE"},
               "FRAGMENT_SHADER", "COMPUTE_SHADER")
  ELSE IF oldLayout = "UNDEFINED" /\ newLayout = "COLOR_ATTACHMENT_OPTIMAL"
  THEN Barrier(oldLayout, newLayout, {}, {"COLOR_ATTACHMENT_WRITE"},
               "TOP_OF_PIPE", "COLOR_ATTACHMENT_OUTPUT")
  ELSE Unsupported

\* A statement sequence: the value of a call is computed once and the rest of
\* the function body goes on with it.
Bind(value, Rest(_)) == CHOOSE r \in {Rest(x) : x \in {value}} : TRUE

\* What a library call leaves behind: the device, how the call ended, whether
\* a native call in it reported a failure, and the value it returned.
Done(d, ret, failed, value) == [dev |-> d, ret |-> ret, failed |-> failed, value |-> value]

\* A command buffer as vkAllocateCommandBuffers returns it.
NewCommandBuffer == [st |-> "initial", cmds |-> << >>, frees |-> 0]

\* vkCmd*: a command is recorded into a command buffer that is recording.
Record(d, commandBuffer, command) ==
  IF commandBuffer \in 1..Len(d.cb) /\ d.cb[commandBuffer].st = "recording"
  THEN [d EXCEPT !.cb[commandBuffer].cmds = Append(@, command)]
  ELSE d

\* VkCommandBuffer CommandUtils::beginSingleTimeCommands(device, pool)
CommandUtils_beginSingleTimeCommands(d, fail) ==
  LET commandBuffer == Len(d.cb) + 1
      allocated == [d EXCEPT !.cb = Append(@, NewCommandBuffer)]
  IN IF fail = "vkAllocateCommandBuffers" THEN Done(d, "throw", TRUE, 0)
     ELSE IF fail = "vkBeginCommandBuffer" THEN Done(allocated, "throw", TRUE, 0)
     ELSE Done([allocated EXCEPT !.cb[commandBuffer].st = "recording"], "ok", FALSE,
               commandBuffer)

\* The contents of an image after a barrier whose oldLayout is UNDEFINED: a
\* byte that no upload wrote.
Discarded == <<0>>

\* The effect of one recorded command when the device executes it: a barrier
\* puts the image into newLayout, and discards its contents when its oldLayout
\* is UNDEFINED; a copy writes the bytes of the staging buffer to the image.
Effect(d, command) ==
  IF command.cmd = "vkCmdPipelineBarrier"
  THEN [d EXCEPT !.image.layout = command.newLayout,
                 !.image.pixels = IF command.oldLayout = "UNDEFINED" THEN Discarded ELSE @]
  ELSE [d EXCEPT !.image.pixels = d.staging[command.srcBuffer].bytes]

RECURSIVE Effects(_, _)
Effects(d, commands) ==
  IF commands = << >> THEN d ELSE Effects(Effect(d, Head(commands)), Tail(commands))

\* The device has executed a pending command buffer.
Complete(d, commandBuffer) ==
  [Effects(d, d.cb[commandBuffer].cmds) EXCEPT !.cb[commandBuffer].st = "complete"]

\* void CommandUtils::endSingleTimeCommands(device, pool, commandBuffer)
CommandUtils_endSingleTimeCommands(d, commandBuffer, fail) ==
  LET ended == [d EXCEPT !.cb[commandBuffer].st = "executable"]
      fence == Len(d.fence) + 1
      created == [ended EXCEPT !.fence = Append(@, [signaled |-> FALSE, destroyed |-> FALSE])]
      submitted == [created EXCEPT !.cb[commandBuffer].st = "pending"]
      waited == [Complete(submitted, commandBuffer) EXCEPT !.fence[fence].signaled = TRUE]
      freed == [waited EXCEPT !.fence[fence].destroyed = TRUE,
                              !.cb[commandBuffer].frees = @ + 1]
  IN IF fail = "vkEndCommandBuffer" THEN Done(d, "throw", TRUE, 0)
     ELSE IF fail = "vkCreateFence" THEN Done(ended, "throw", TRUE, 0)
     ELSE IF fail = "vkQueueSubmit" THEN Done(created, "throw", TRUE, 0)
     ELSE IF fail = "vkWaitForFences" THEN Done(submitted, "throw", TRUE, 0)
     ELSE Done(freed, "ok", FALSE, 0)

\* VkCommandBuffer CommandPoolManager::beginSingleTimeCommands(): no status is
\* looked at.  After a failed allocation the handle was never written, and
\* vkBeginCommandBuffer is called on it: the call crashes the process, or it
\* returns and the caller gets the unwritten handle (0 stands for it).  After
\* a failed begin the command buffer returned is not recording.
CommandPoolManager_beginSingleTimeCommands(d, fail, crashes) ==
  LET commandBuffer == Len(d.cb) + 1
      allocated == [d EXCEPT !.cb = Append(@, NewCommandBuffer)]
  IN IF fail = "vkAllocateCommandBuffers"
     THEN Done(d, IF crashes THEN "crash" ELSE "ok", TRUE, 0)
     ELSE IF fail = "vkBeginCommandBuffer" THEN Done(allocated, "ok", TRUE, commandBuffer)
     ELSE Done([allocated EXCEPT !.cb[commandBuffer].st = "recording"], "ok", FALSE,
               commandBuffer)

\* void CommandPoolManager::endSingleTimeCommands(commandBuffer): no status is
\* looked at, and the command buffer is freed whatever the calls before
\* reported.  A command buffer that is not recording cannot be ended and one
\* that was not ended cannot be submitted: those calls fail as well.  On the
\* unwritten handle the calls crash the process or fail.
CommandPoolManager_endSingleTimeCommands(d, commandBuffer, fail, crashes) ==
  LET valid == commandBuffer \in 1..Len(d.cb)
      endFails == fail = "vkEndCommandBuffer" \/ ~valid \/ d.cb[commandBuffer].st # "recording"
      ended == IF endFails THEN d ELSE [d EXCEPT !.cb[commandBuffer].st = "executable"]
      submitFails == fail = "vkQueueSubmit" \/ endFails
      submitted == IF submitFails THEN ended ELSE [ended EXCEPT !.cb[commandBuffer].st = "pending"]
      waitFails == fail = "vkQueueWaitIdle"
      waited == IF waitFails \/ submitFails THEN submitted ELSE Complete(submitted, commandBuffer)
      freed == IF valid THEN [waited EXCEPT !.cb[commandBuffer].frees = @ + 1] ELSE waited
  IN IF ~valid /\ crashes THEN Done(d, "crash", TRUE, 0)
     ELSE Done(freed, "ok", endFails \/ submitFails \/ waitFails, 0)

\* void transitionImageLayoutWithoutCommandBuffer(device, commandPool, image,
\* oldLayout, newLayout)
transitionImageLayoutWithoutCommandBuffer(d, oldLayout, newLayout, fail) ==
  Bind(CommandUtils_beginSingleTimeCommands(d, fail), LAMBDA begun :
    Bind(Cases_WithoutCommandBuffer(oldLayout, newLayout), LAMBDA barrier :
      IF begun.ret = "throw" THEN begun
      ELSE IF barrier.cmd = "throw" THEN Done(begun.dev, "throw", FALSE, 0)
      ELSE Bind(Record(begun.dev, begun.value, barrier), LAMBDA recorded :
             CommandUtils_endSingleTimeCommands(recorded, begun.value, fail))))

\* void transitionImageLayout(device, commandBuffer, image, oldLayout, newLayout)
transitionImageLayout(d, commandBuffer, oldLayout, newLayout) ==
  LET barrier == Cases_transitionImageLayout(oldLayout, newLayout) IN
    IF barrier.cmd = "throw" THEN Done(d, "throw", FALSE, 0)
    ELSE Done(Record(d, commandBuffer, barrier), "ok", FALSE, 0)

\* void transitionImageLayoutWithInfo(device, commandPool, ImageInfo imageInfo,
\* newLayout).  imageInfo is the function's own copy of the caller's record;
\* `value` is that copy when the function returns.
transitionImageLayoutWithInfo(d, imageInfo, newLayout, fail) ==
  IF imageInfo.layout = newLayout THEN Done(d, "ok", FALSE, imageInfo)
  ELSE
    Bind(CommandUtils_beginSingleTimeCommands(d, fail), LAMBDA begun :
      Bind(Cases_WithInfo(imageInfo.layout, newLayout), LAMBDA barrier :
        IF begun.ret = "throw" THEN Done(begun.dev, "throw", TRUE, imageInfo)
        ELSE IF barrier.cmd = "throw" THEN Done(begun.dev, "throw", FALSE, imageInfo)
        ELSE
          Bind(Record(begun.dev, begun.value, barrier), LAMBDA recorded :
            Bind(CommandUtils_endSingleTimeCommands(recorded, begun.value, fail), LAMBDA ended :
              IF ended.ret = "throw" THEN Done(ended.dev, "throw", TRUE, imageInfo)
              ELSE Done(ended.dev, "ok", FALSE, [imageInfo EXCEPT !.layout = newLayout])))))

\* The byte arrays the caller uploads; the empty one stands for a null pointer
\* or a size of zero.
MaxData == 2

Datas == {[i \in 1..n |-> i] : n \in 0..MaxData}

\* void ImageBuilder::uploadData(ImageInfo imageInfo, data, dataSize,
\* finalImageLayout).  The status of vmaMapMemory is not looked at: after a
\* failed mapping memcpy writes through a pointer that was never set, which
\* crashes the process or leaves the staging buffer unwritten.
ImageBuilder_uploadData(d, imageInfo, data, finalImageLayout, fail, crashes) ==
  LET stagingBuffer == Len(d.staging) + 1
      mapFails == fail = "vmaMapMemory"
      region == [cmd |-> "vkCmdCopyBufferToImage", srcBuffer |-> stagingBuffer,
                 dstImageLayout |-> "TRANSFER_DST_OPTIMAL"]
  IN
  IF fail = "vmaCreateBuffer" THEN Done(d, "throw", TRUE, 0)
  ELSE
    Bind([d EXCEPT !.staging = Append(@, [bytes |-> << >>, destroyed |-> FALSE])], LAMBDA created :
      IF mapFails /\ crashes THEN Done(created, "crash", TRUE, 0)
      ELSE
        Bind(IF mapFails THEN created
             ELSE [created EXCEPT !.staging[stagingBuffer].bytes = data], LAMBDA copied :
        Bind(transitionImageLayoutWithInfo(copied, imageInfo, "TRANSFER_DST_OPTIMAL", fail),
             LAMBDA toTransfer :
          IF toTransfer.ret = "throw" THEN Done(toTransfer.dev, "throw", toTransfer.failed, 0)
          ELSE
            Bind(CommandPoolManager_beginSingleTimeCommands(toTransfer.dev, fail, crashes),
                 LAMBDA begun :
              IF begun.ret = "crash" THEN Done(begun.dev, "crash", TRUE, 0)
              ELSE
                Bind(Record(begun.dev, begun.value, region), LAMBDA recorded :
                Bind(CommandPoolManager_endSingleTimeCommands(recorded, begun.value, fail,
                                                              crashes), LAMBDA ended :
                  IF ended.ret = "crash" THEN Done(ended.dev, "crash", TRUE, 0)
                  ELSE
                    Bind(transitionImageLayoutWithInfo(ended.dev, imageInfo, finalImageLayout,
                                                       fail), LAMBDA toFinal :
                      LET failed == mapFails \/ begun.failed \/ ended.failed IN
                        IF toFinal.ret = "throw"
                        THEN Done(toFinal.dev, "throw", failed \/ toFinal.failed, 0)
                        ELSE Done([toFinal.dev EXCEPT !.staging[stagingBuffer].destroyed = TRUE],
                                  "ok", failed, 0))))))))

\* ImageInfo ImageBuilder::buildAndInitialize(data, dataSize, name,
\* outAllocation, finalImageLayout) of a builder whose parameters are valid;
\* `value` is the ImageInfo returned, and the image of the run becomes the new
\* image, in m_initialLayout.
ImageBuilder_buildAndInitialize(d, m_initialLayout, data, finalImageLayout, fail, crashes) ==
  LET imageInfo == [layout |-> m_initialLayout]
      built == [d EXCEPT !.image = [layout |-> m_initialLayout, pixels |-> << >>]]
  IN IF data = << >> THEN Done(d, "throw", FALSE, imageInfo)
     ELSE IF fail \in {"vmaCreateImage", "vkCreateImageView"} THEN Done(d, "throw", TRUE, imageInfo)
     ELSE Bind(ImageBuilder_uploadData(built, imageInfo, data, finalImageLayout, fail, crashes),
               LAMBDA uploaded : Done(uploaded.dev, uploaded.ret, uploaded.failed, imageInfo))

\* An upload that writes the bytes in reverse order.
BufferBuilder_uploadData_reversed(memory, data) ==
  [i \in 1..Len(memory) |-> IF i <= Len(data) THEN data[Len(data) + 1 - i] ELSE memory[i]]

\* void BufferBuilder::uploadData(buffer, allocation, data, dataSize): memcpy
\* to allocInfo.pMappedData.  Bytes past the end of the buffer's memory are
\* written outside it.
BufferBuilder_uploadData(memory, data) ==
  [i \in 1..Len(memory) |-> IF i <= Len(data) THEN data[i] ELSE memory[i]]

\* VkBuffer BufferBuilder::buildAndInitialize(data, dataSize, name,
\* outAllocation) of a builder with m_size set and a usage; the new buffer's
\* memory is zero-filled here.  Data longer than the buffer overruns it: the
\* call crashes the process or returns.
BufferBuilder_buildAndInitialize(d, m_size, data, fail, crashes) ==
  LET memory == [i \in 1..m_size |-> 0] IN
    IF data = << >> THEN Done(d, "throw", FALSE, 0)
    ELSE IF m_size = 0 THEN Done(d, "throw", FALSE, 0)
    ELSE IF fail = "vmaCreateBuffer" THEN Done(d, "throw", TRUE, 0)
    ELSE IF Len(data) > m_size /\ crashes THEN Done(d, "crash", FALSE, 0)
    ELSE Done([d EXCEPT !.buffer = BufferBuilder_uploadData(memory, data)], "ok", FALSE, 0)

\* void MemoryUtils::mapAndRetrieveData(device, allocation, data, size);
\* `value` is what the caller's array holds afterwards.
mapAndRetrieveData(d, out, size, fail) ==
  IF fail = "vmaMapMemory" THEN Done(d, "throw", TRUE, out)
  ELSE Done(d, "ok", FALSE, SubSeq(d.buffer, 1, size))

\* VkResult SynchronizationManager::waitForFences(fences, waitAll, timeout)
waitForFences(d, fail) ==
  IF fail = "vkWaitForFences" THEN Done(d, "VK_TIMEOUT", TRUE, 0)
  ELSE Done(d, "VK_SUCCESS", FALSE, 0)

\* The caller holds no command buffer from a begin call.
NoCommandBuffer == <<"none", 0>>

\* The variables a transfer call leaves alone.
untouched == <<native, rm, cpm, log, cap, keys, hist, builder, managers>>

\* A library call of the transfer run: it ended as `o` says, and the caller's
\* state becomes `caller`.  A crash ends the process.
TransferCall(op, o, caller) ==
  /\ dev' = o.dev
  /\ app' = [caller EXCEPT !.calls = @ + 1]
  /\ last' = [op |-> op, ret |-> o.ret, failed |-> o.failed]
  /\ alive' = (o.ret # "crash")
  /\ UNCHANGED untouched

\* The caller may make another library call: an exception ends the run.
CanCall == alive /\ app.calls < MaxCalls /\ last.ret # "throw"

CmdBegin ==
  /\ CanCall
  /\ app.held = NoCommandBuffer
  /\ \E fail \in {"none", "vkAllocateCommandBuffers", "vkBeginCommandBuffer"} :
       \E o \in {CommandUtils_beginSingleTimeCommands(dev, fail)} :
         TransferCall("CommandUtils::beginSingleTimeCommands", o,
                      [app EXCEPT !.held = IF o.ret = "ok" THEN <<"CommandUtils", o.value>>
                                           ELSE @])

CmdEnd ==
  /\ CanCall
  /\ app.held[1] = "CommandUtils"
  /\ \E fail \in {"none", "vkEndCommandBuffer", "vkCreateFence", "vkQueueSubmit",
                   "vkWaitForFences"} :
       \E o \in {CommandUtils_endSingleTimeCommands(dev, app.held[2], fail)} :
         TransferCall("CommandUtils::endSingleTimeCommands", o,
                      [app EXCEPT !.held = NoCommandBuffer, !.ended = app.held[2]])

PoolBegin ==
  /\ CanCall
  /\ app.held = NoCommandBuffer
  /\ \E fail \in {"none", "vkAllocateCommandBuffers", "vkBeginCommandBuffer"},
        crashes \in BOOLEAN :
       \E o \in {CommandPoolManager_beginSingleTimeCommands(dev, fail, crashes)} :
         TransferCall("CommandPoolManager::beginSingleTimeCommands", o,
                      [app EXCEPT !.held = IF o.ret = "ok"
                                           THEN <<"CommandPoolManager", o.value>> ELSE @])

PoolEnd ==
  /\ CanCall
  /\ app.held[1] = "CommandPoolManager"
  /\ \E fail \in {"none", "vkEndCommandBuffer", "vkQueueSubmit", "vkQueueWaitIdle"},
        crashes \in BOOLEAN :
       \E o \in {CommandPoolManager_endSingleTimeCommands(dev, app.held[2], fail, crashes)} :
         TransferCall("CommandPoolManager::endSingleTimeCommands", o,
                      [app EXCEPT !.held = NoCommandBuffer, !.ended = app.held[2]])

\* The caller records a transition into the command buffer it holds.
TransitionImageLayout ==
  /\ CanCall
  /\ app.run = "image"
  /\ app.held # NoCommandBuffer
  /\ \E o \in {transitionImageLayout(dev, app.held[2], app.oldLayout, app.newLayout)} :
       TransferCall("transitionImageLayout", o, app)

TransitionImageLayoutWithoutCommandBuffer ==
  /\ CanCall
  /\ app.run = "image"
  /\ \E fail \in SingleTimeFailures :
       \E o \in {transitionImageLayoutWithoutCommandBuffer(dev, app.oldLayout, app.newLayout,
                                                           fail)} :
         TransferCall("transitionImageLayoutWithoutCommandBuffer", o, app)

\* The caller passes its ImageInfo; the function works on a copy of it.
TransitionImageLayoutWithInfo ==
  /\ CanCall
  /\ app.run = "image"
  /\ \E fail \in SingleTimeFailures :
       \E o \in {transitionImageLayoutWithInfo(dev, app.imageInfo, app.newLayout, fail)} :
         TransferCall("transitionImageLayoutWithInfo", o, app)

\* The caller builds the image of the run anew and uploads its data; the
\* image is registered with m_initialLayout and the caller keeps the ImageInfo
\* returned.
ImageBuildAndInitialize ==
  /\ CanCall
  /\ app.run = "image"
  /\ \E fail \in Failures, crashes \in BOOLEAN :
       \E o \in {ImageBuilder_buildAndInitialize(dev, app.oldLayout, app.data, app.newLayout,
                                                 fail, crashes)} :
         TransferCall("ImageBuilder::buildAndInitialize", o,
                      IF o.ret = "ok"
                      THEN [app EXCEPT !.imageInfo = o.value, !.record = o.value.layout]
                      ELSE app)

BufferBuildAndInitialize ==
  /\ CanCall
  /\ app.run = "buffer"
  /\ dev.buffer = << >>
  /\ \E fail \in {"none", "vmaCreateBuffer"}, crashes \in BOOLEAN, m_size \in 1..MaxData :
       \E o \in {BufferBuilder_buildAndInitialize(dev, m_size, app.data, fail, crashes)} :
         TransferCall("BufferBuilder::buildAndInitialize", o, [app EXCEPT !.m_size = m_size])

\* The caller reads the whole buffer back.
MapAndRetrieveData ==
  /\ CanCall
  /\ dev.buffer # << >>
  /\ \E fail \in {"none", "vmaMapMemory"} :
       \E o \in {mapAndRetrieveData(dev, app.out, Len(dev.buffer), fail)} :
         TransferCall("MemoryUtils::mapAndRetrieveData", o, [app EXCEPT !.out = o.value])

WaitForFences ==
  /\ CanCall
  /\ app.run = "buffer"
  /\ \E fail \in {"none", "vkWaitForFences"} :
       \E o \in {waitForFences(dev, fail)} :
         TransferCall("SynchronizationManager::waitForFences", o, app)

\* The device finishes a command buffer that was submitted.
DeviceCompletes ==
  /\ \E commandBuffer \in 1..Len(dev.cb) :
       /\ dev.cb[commandBuffer].st = "pending"
       /\ dev' = Complete(dev, commandBuffer)
  /\ UNCHANGED <<untouched, alive, last, app>>

\* The caller's state at the start of a run.
NewCaller(run, oldLayout, newLayout, data) ==
  [run |-> run, calls |-> 0, oldLayout |-> oldLayout, newLayout |-> newLayout,
   imageInfo |-> [layout |-> oldLayout], record |-> oldLayout, data |-> data,
   m_size |-> 0, out |-> << >>, held |-> NoCommandBuffer, ended |-> 0]

\* An initialized context.  A run works on an image or on a buffer.  In an
\* image run the image is in oldLayout, registered with that layout and
\* described by the caller's ImageInfo, and the caller asks for newLayout; in a
\* buffer run the caller uploads an array of its choice.
InitTransfer ==
  /\ native = vkCreate([x \in {} |-> [n |-> 0, deps |-> {}]], <<"commandPool", 1>>, {})
  /\ rm = NewResourceManager
  /\ cpm = [m_commandPools |-> << >>, m_singleTimeCommandPool |-> <<"commandPool", 1>>]
  /\ alive = TRUE
  /\ log = << >>
  /\ last = Result("VulkanContext::initialize", "ok")
  /\ cap = 0
  /\ hist = [registered |-> {}, swept |-> {}, displaced |-> {}]
  /\ keys = Names(1)
  /\ builder = NoBuilder
  /\ gpu = NoPhysicalDevice
  /\ sync = NoSynchronizationManager
  /\ \/ \E oldLayout \in Layouts, newLayout \in Layouts :
          /\ dev = [NewDevice EXCEPT !.image.layout = oldLayout]
          /\ app = NewCaller("image", oldLayout, newLayout, <<1>>)
     \/ \E data \in Datas :
          /\ dev = NewDevice
          /\ app = NewCaller("buffer", "UNDEFINED", "UNDEFINED", data)

NextTransfer ==
  \/ CmdBegin
  \/ CmdEnd
  \/ PoolBegin
  \/ PoolEnd
  \/ TransitionImageLayout
  \/ TransitionImageLayoutWithoutCommandBuffer
  \/ TransitionImageLayoutWithInfo
  \/ ImageBuildAndInitialize
  \/ BufferBuildAndInitialize
  \/ MapAndRetrieveData
  \/ WaitForFences
  \/ DeviceCompletes

SpecTransfer == InitTransfer /\ [][NextTransfer]_vars

(***************************************************************************)
(* Properties of the transfer calls.                                       *)
(***************************************************************************)

\* The call that has just returned (or thrown).
Returned(op) == last.op = op /\ last.ret = "ok"

\* C13: after transitionImageLayoutWithInfo has completed a transition of the
\* image to newLayout, the layout tracked for the image, in the caller's
\* ImageInfo and in the ResourceManager record, is newLayout.
C13_TrackedLayoutIsNewLayout ==
  Returned("transitionImageLayoutWithInfo")
    => /\ app.imageInfo.layout = app.newLayout
       /\ app.record = app.newLayout

\* The three layout-transition helpers.
Helpers ==
  {"transitionImageLayout", "transitionImageLayoutWithoutCommandBuffer",
   "transitionImageLayoutWithInfo"}

\* The pairs every helper supports, each with srcAccessMask, dstAccessMask,
\* source stage and destination stage.
CommonTransitions ==
  { <<"UNDEFINED", "TRANSFER_DST_OPTIMAL", {}, {"TRANSFER_WRITE"}, "TOP_OF_PIPE", "TRANSFER">>,
    <<"TRANSFER_DST_OPTIMAL", "SHADER_READ_ONLY_OPTIMAL", {"TRANSFER_WRITE"}, {"SHADER_READ"},
      "TRANSFER", "FRAGMENT_SHADER">>,
    <<"UNDEFINED", "GENERAL", {}, {"SHADER_READ", "SHADER_WRITE"},
      "TOP_OF_PIPE", "COMPUTE_SHADER">>,
    <<"GENERAL", "SHADER_READ_ONLY_OPTIMAL", {"SHADER_WRITE"}, {"SHADER_READ"},
      "COMPUTE_SHADER", "FRAGMENT_SHADER">>,
    <<"SHADER_READ_ONLY_OPTIMAL", "GENERAL", {"SHADER_READ"}, {"SHADER_READ", "SHADER_WRITE"},
      "FRAGMENT_SHADER", "COMPUTE_SHADER">>,
    <<"UNDEFINED", "COLOR_ATTACHMENT_OPTIMAL", {}, {"COLOR_ATTACHMENT_WRITE"},
      "TOP_OF_PIPE", "COLOR_ATTACHMENT_OUTPUT">> }

\* The pairs only transitionImageLayout supports.
CommandBufferTransitions ==
  { <<"ATTACHMENT_OPTIMAL_KHR", "SHADER_READ_ONLY_OPTIMAL", {"COLOR_ATTACHMENT_WRITE"},
      {"SHADER_READ"}, "COLOR_ATTACHMENT_OUTPUT", "FRAGMENT_SHADER">>,
    <<"UNDEFINED", "SHADER_READ_ONLY_OPTIMAL", {}, {"SHADER_READ"},
      "TOP_OF_PIPE", "FRAGMENT_SHADER">>,
    <<"COLOR_ATTACHMENT_OPTIMAL", "SHADER_READ_ONLY_OPTIMAL", {}, {"SHADER_READ"},
      "TOP_OF_PIPE", "FRAGMENT_SHADER">>,
    <<"PRESENT_SRC_KHR", "TRANSFER_SRC_OPTIMAL", {"COLOR_ATTACHMENT_WRITE"}, {"TRANSFER_READ"},
      "COLOR_ATTACHMENT_OUTPUT", "TRANSFER">>,
    <<"TRANSFER_SRC_OPTIMAL", "PRESENT_SRC_KHR", {"TRANSFER_READ"}, {"COLOR_ATTACHMENT_WRITE"},
      "TRANSFER", "COLOR_ATTACHMENT_OUTPUT">>,
    <<"TRANSFER_DST_OPTIMAL", "TRANSFER_SRC_OPTIMAL", {"TRANSFER_WRITE"}, {"TRANSFER_READ"},
      "TRANSFER", "TRANSFER">> }

\* The rows of a helper's case table for a pair: one row or none.
Rows(helper, oldLayout, newLayout) ==
  {t \in CommonTransitions
        \cup (IF helper = "transitionImageLayout" THEN CommandBufferTransitions ELSE {}) :
     t[1] = oldLayout /\ t[2] = newLayout}

\* This step is a call of the helper.
HelperCall(helper) == last'.op = helper /\ app'.calls = app.calls + 1

\* The layout a helper call starts from: the argument, or the ImageInfo's.
OldLayoutOf(helper) ==
  IF helper = "transitionImageLayoutWithInfo" THEN app.imageInfo.layout ELSE app.oldLayout

\* The command buffer a helper call records into: the caller's, or the one the
\* helper begins.
CommandBufferOf(helper) ==
  IF helper = "transitionImageLayout" THEN app.held[2] ELSE Len(dev.cb) + 1

\* The step added exactly the barrier of row t to the command buffer, provided
\* the command buffer is one that can be recorded into.
RecordsBarrier(commandBuffer, t) ==
  LET before == IF commandBuffer \in 1..Len(dev.cb) THEN dev.cb[commandBuffer].cmds ELSE << >>
      recording == commandBuffer \in 1..Len(dev.cb) => dev.cb[commandBuffer].st = "recording"
  IN (commandBuffer \in 1..Len(dev'.cb) /\ recording)
       => dev'.cb[commandBuffer].cmds
            = Append(before, Barrier(t[1], t[2], t[3], t[4], t[5], t[6]))

\* The step recorded nothing: every command buffer holds what it held, and a
\* command buffer the step allocated is empty.
RecordsNothing ==
  \A commandBuffer \in 1..Len(dev'.cb) :
    dev'.cb[commandBuffer].cmds
      = IF commandBuffer \in 1..Len(dev.cb) THEN dev.cb[commandBuffer].cmds ELSE << >>

\* C14 as stated: each helper throws for every pair that is not in its case
\* table and, for every pair in the table, records a barrier with that pair's
\* access masks and pipeline stages without throwing.
C14_TableDecides ==
  [][\A helper \in Helpers :
       HelperCall(helper)
         => LET rows == Rows(helper, OldLayoutOf(helper), app.newLayout) IN
              IF rows = {} THEN last'.ret = "throw"
              ELSE /\ last'.ret = "ok"
                   /\ \E t \in rows : RecordsBarrier(CommandBufferOf(helper), t)]_vars

\* C14: each helper throws for every pair that is not in its case table,
\* except that transitionImageLayoutWithInfo returns without recording
\* anything when the ImageInfo's layout already is newLayout; for every pair
\* in the table the helper records a barrier with that pair's access masks and
\* pipeline stages, and it throws then only if a native call of its
\* single-time command buffer reports a failure.
C14_TableDecidesUnlessSkippedOrFailed ==
  [][\A helper \in Helpers :
       HelperCall(helper)
         => LET rows == Rows(helper, OldLayoutOf(helper), app.newLayout) IN
              IF helper = "transitionImageLayoutWithInfo" /\ app.imageInfo.layout = app.newLayout
              THEN last'.ret = "ok" /\ dev' = dev
              ELSE IF rows = {} THEN last'.ret = "throw" /\ RecordsNothing
              ELSE IF last'.failed THEN last'.ret = "throw"
              ELSE /\ last'.ret = "ok"
                   /\ \E t \in rows : RecordsBarrier(CommandBufferOf(helper), t)]_vars

\* transitionImageLayout recorded the barrier of a pair that only its table
\* holds into the caller's command buffer.
C14_Witness ==
  /\ Returned("transitionImageLayout")
  /\ app.oldLayout = "PRESENT_SRC_KHR" /\ app.newLayout = "TRANSFER_SRC_OPTIMAL"
  /\ app.held[2] \in 1..Len(dev.cb)
  /\ dev.cb[app.held[2]].cmds
       = <<Barrier("PRESENT_SRC_KHR", "TRANSFER_SRC_OPTIMAL", {"COLOR_ATTACHMENT_WRITE"},
                   {"TRANSFER_READ"}, "COLOR_ATTACHMENT_OUTPUT", "TRANSFER")>>

\* This step is a call of op that returned.
Returns(op) == last'.op = op /\ app'.calls = app.calls + 1 /\ last'.ret = "ok"

\* The commands that copy out of a buffer.
CopyCommands == {"vkCmdCopyBufferToImage", "vkCmdCopyBuffer"}

\* A command buffer allocated in this step holds a copy out of the staging
\* buffer and the device has executed it.
CopyCompleted(stagingBuffer) ==
  \E commandBuffer \in (Len(dev.cb) + 1)..Len(dev'.cb) :
    /\ dev'.cb[commandBuffer].st = "complete"
    /\ \E i \in 1..Len(dev'.cb[commandBuffer].cmds) :
         /\ dev'.cb[commandBuffer].cmds[i].cmd \in CopyCommands
         /\ dev'.cb[commandBuffer].cmds[i].srcBuffer = stagingBuffer

\* C15: when buildAndInitialize returns it has created a staging buffer,
\* copied the caller's data into it, recorded and submitted a copy out of it
\* that the device has completed, and destroyed the staging buffer.
C15_StagedUploadCompletes ==
  [][\A op \in {"ImageBuilder::buildAndInitialize", "BufferBuilder::buildAndInitialize"} :
       Returns(op)
         => /\ Len(dev'.staging) = Len(dev.staging) + 1
            /\ dev'.staging[Len(dev'.staging)].bytes = app.data
            /\ CopyCompleted(Len(dev'.staging))
            /\ dev'.staging[Len(dev'.staging)].destroyed]_vars

\* C16: after BufferBuilder::buildAndInitialize has created a buffer of size N
\* from data D of N bytes, a mapped retrieve of the buffer's N bytes yields D.
C16_ReadbackEqualsData ==
  (Returned("MemoryUtils::mapAndRetrieveData") /\ app.m_size = Len(app.data))
    => app.out = app.data

\* Two bytes were uploaded to a buffer of size two and read back.
C16_Witness ==
  /\ Returned("MemoryUtils::mapAndRetrieveData")
  /\ app.m_size = MaxData /\ Len(app.data) = MaxData
  /\ Len(app.out) = MaxData /\ app.out[1] # app.out[MaxData]

\* C19: a library operation in which a native call reported a non-success
\* status throws; no failing status is ignored or recovered from.
C19_FailureThrows ==
  ("failed" \in DOMAIN last /\ last.failed) => last.ret = "throw"

\* The end calls of the two single-time command helpers.
EndCalls == {"CommandUtils::endSingleTimeCommands", "CommandPoolManager::endSingleTimeCommands"}

\* C20: when the end call of a single-time command helper returns, the device
\* has finished executing the command buffer the call submitted, and the
\* command buffer has been freed exactly once.
C20_EndWaitsAndFreesOnce ==
  [][\A op \in EndCalls :
       (Returns(op) /\ app'.ended \in 1..Len(dev'.cb))
         => /\ dev'.cb[app'.ended].st = "complete"
            /\ dev'.cb[app'.ended].frees = 1]_vars

(***************************************************************************)
(* Frame conditions of clearResource and clearCommandBuffers.              *)
(***************************************************************************)

\* C21: a clearResource(name, type) call that finds the record only removes
\* it from tracking: no destroy or free call is made on any native object, so
\* the objects of the record are as valid as they were before the call.
C21_ClearOnlyUntracks ==
  [][(last'.op = "clearResource" /\ last'.ret = "true" /\ rm' # rm)
       => /\ native' = native
          /\ \E e \in Cleared : e \in Entries(rm) \ Entries(rm')]_vars

\* The command buffers allocated from a pool.
AllocatedFrom(pool) == {h \in HandlesOf("commandBuffer") : pool \in native[h].deps}

\* This step is a clearCommandBuffers(pool, resourceManager) call that returned.
ClearsPool(pool) ==
  /\ last'.op = "clearCommandBuffers" /\ last'.ret = "ok"
  /\ clearCommandBuffers(rm, native, pool) = [rm |-> rm', native |-> native', threw |-> FALSE]

\* C22: clearCommandBuffers(pool, resourceManager) frees every command buffer
\* allocated from pool, removes exactly the records of those command buffers
\* and leaves every other record as it was, and does not destroy the pool.
C22_ClearsExactlyThePool ==
  [][\A pool \in HandlesOf("commandPool") :
       ClearsPool(pool)
         => /\ \A h \in AllocatedFrom(pool) : native'[h].n > 0
            /\ \A e \in Entries(rm) :
                 IF e[1] = "m_commandBuffers" /\ rm[e[1]][e[2]].commandBuffer \in AllocatedFrom(pool)
                 THEN e \notin Entries(rm')
                 ELSE e \in Entries(rm') /\ rm'[e[1]][e[2]] = rm[e[1]][e[2]]
            /\ native'[pool] = native[pool]]_vars

\* C23: BufferBuilder::buildAndInitialize throws when the data pointer is null
\* or the data size differs from the configured buffer size, so it never
\* copies more bytes than the buffer holds.
C23_ThrowsOnSizeMismatch ==
  [][(last'.op = "BufferBuilder::buildAndInitialize" /\ app'.calls = app.calls + 1)
       => /\ (app.data = << >> \/ Len(app.data) # app'.m_size) => last'.ret = "throw"
          /\ last'.ret = "ok" => Len(app.data) <= Len(dev'.buffer)
          /\ last'.ret # "crash"]_vars

(***************************************************************************)
(* VulkanDevice: queue-family discovery and the choice of the physical     *)
(* device.                                                                 *)
(*                                                                         *)
(* A physical device is the list of its queue families, each the set of    *)
(* the queue flags it advertises, whether it supports the required device  *)
(* extensions, and its device type.  Queue family indices count from 0 as  *)
(* in the code.                                                            *)
(***************************************************************************)

\* The largest number of queue families of a physical device.
MaxFamilies == 3

QueueFlags == {"GRAPHICS", "COMPUTE", "TRANSFER"}

DeviceTypes == {"DISCRETE_GPU", "INTEGRATED_GPU"}

\* The values an index field that was never assigned can hold: a valid index
\* and one past the last family.
Indeterminate == {0, MaxFamilies}

\* A default-constructed QueueFamilyIndices: the three index fields have no
\* initializer and hold whatever the build left there.
NewQueueFamilyIndices(junk) ==
  [graphicsFamily |-> junk, computeFamily |-> junk, transferFamily |-> junk,
   hasGraphics |-> FALSE, hasCompute |-> FALSE, hasTransfer |-> FALSE]

isComplete(indices) == indices.hasGraphics /\ indices.hasCompute /\ indices.hasTransfer

\* A variant of the loop body that takes every family advertising a flag,
\* so the last one wins.
VisitQueueFamily_lastMatch(indices, queueFamily, i) ==
  LET g == IF "GRAPHICS" \in queueFamily
           THEN [indices EXCEPT !.graphicsFamily = i, !.hasGraphics = TRUE] ELSE indices
      c == IF "COMPUTE" \in queueFamily
           THEN [g EXCEPT !.computeFamily = i, !.hasCompute = TRUE] ELSE g
  IN  IF "TRANSFER" \in queueFamily
      THEN [c EXCEPT !.transferFamily = i, !.hasTransfer = TRUE] ELSE c

\* The body of the loop of findQueueFamilies for family i.
VisitQueueFamily(indices, queueFamily, i) ==
  LET g == IF "GRAPHICS" \in queueFamily /\ ~indices.hasGraphics
           THEN [indices EXCEPT !.graphicsFamily = i, !.hasGraphics = TRUE] ELSE indices
      c == IF "COMPUTE" \in queueFamily /\ ~g.hasCompute
           THEN [g EXCEPT !.computeFamily = i, !.hasCompute = TRUE] ELSE g
  IN  IF "TRANSFER" \in queueFamily /\ ~c.hasTransfer
      THEN [c EXCEPT !.transferFamily = i, !.hasTransfer = TRUE] ELSE c

\* The loop of findQueueFamilies from family i on: it stops at the end of the
\* list or as soon as the indices are complete.
RECURSIVE ScanQueueFamilies(_, _, _)
ScanQueueFamilies(queueFamilies, i, indices) ==
  IF i >= Len(queueFamilies) THEN indices
  ELSE Bind(VisitQueueFamily(indices, queueFamilies[i + 1], i),
            LAMBDA visited : IF isComplete(visited) THEN visited
                             ELSE ScanQueueFamilies(queueFamilies, i + 1, visited))

\* After the loop a missing compute or transfer family takes the graphics
\* family's index and its flag.
UseGraphicsFamily(indices) ==
  LET c == IF ~indices.hasCompute
           THEN [indices EXCEPT !.computeFamily = indices.graphicsFamily,
                                !.hasCompute = indices.hasGraphics]
           ELSE indices
  IN  IF ~c.hasTransfer
      THEN [c EXCEPT !.transferFamily = c.graphicsFamily, !.hasTransfer = c.hasGraphics]
      ELSE c

findQueueFamilies(device, junk) ==
  UseGraphicsFamily(ScanQueueFamilies(device.queueFamilies, 0, NewQueueFamilyIndices(junk)))

isDeviceSuitable(device, junk) ==
  LET indices == findQueueFamilies(device, junk)
  IN  IF device.extensionsSupported /\ device.deviceType = "DISCRETE_GPU" THEN TRUE
      ELSE isComplete(indices) /\ device.extensionsSupported

\* The physical devices of a run.
QueueFamilyLists ==
  UNION {[1..n -> SUBSET QueueFlags] : n \in 0..MaxFamilies}

PhysicalDevices ==
  [queueFamilies : QueueFamilyLists, extensionsSupported : BOOLEAN, deviceType : DeviceTypes]

\* The instance enumerates one physical device; the VulkanDevice has not
\* chosen it yet and has not been asked anything.
InitQueues ==
  /\ native = vkCreate([x \in {} |-> [n |-> 0, deps |-> {}]], <<"commandPool", 1>>, {})
  /\ rm = NewResourceManager
  /\ cpm = [m_commandPools |-> << >>, m_singleTimeCommandPool |-> <<"commandPool", 1>>]
  /\ alive = TRUE
  /\ log = << >>
  /\ last = Result("VulkanDevice::createInstance", "ok")
  /\ cap = 0
  /\ hist = [registered |-> {}, swept |-> {}, displaced |-> {}]
  /\ keys = Names(1)
  /\ builder = NoBuilder
  /\ dev = NewDevice
  /\ app = NoTransfer
  /\ sync = NoSynchronizationManager
  /\ gpu \in [kind : {"device"}, device : PhysicalDevices,
              m_physicalDevice : {"null"}, suitable : {"unknown"}]

\* Each call gets its own default-constructed QueueFamilyIndices, whose index
\* fields start with an indeterminate value.
VulkanDevice_findQueueFamilies ==
  /\ gpu.kind = "device"
  /\ last.ret # "throw"
  /\ \E junk \in Indeterminate :
       /\ UNCHANGED gpu
       /\ last' = [op |-> "VulkanDevice::findQueueFamilies", ret |-> "ok",
                   value |-> findQueueFamilies(gpu.device, junk)]
  /\ UNCHANGED <<native, rm, cpm, alive, log, cap, keys, hist, builder, transfer, sync>>

VulkanDevice_isDeviceSuitable ==
  /\ gpu.kind = "device"
  /\ last.ret # "throw"
  /\ \E junk \in Indeterminate :
       /\ gpu' = [gpu EXCEPT !.suitable = BoolStr(isDeviceSuitable(gpu.device, junk))]
       /\ last' = [op |-> "VulkanDevice::isDeviceSuitable",
                   ret |-> BoolStr(isDeviceSuitable(gpu.device, junk))]
  /\ UNCHANGED <<native, rm, cpm, alive, log, cap, keys, hist, builder, transfer, sync>>

\* pickPhysicalDevice takes the first suitable device and stores the indices
\* findQueueFamilies returns for it; it throws when no device is suitable.
VulkanDevice_pickPhysicalDevice ==
  /\ gpu.kind = "device"
  /\ last.ret # "throw"
  /\ gpu.m_physicalDevice = "null"
  /\ \E junk \in Indeterminate :
       IF isDeviceSuitable(gpu.device, junk)
       THEN /\ gpu' = [gpu EXCEPT !.m_physicalDevice = "device",
                                  !.suitable = "true"]
            /\ last' = [op |-> "VulkanDevice::pickPhysicalDevice", ret |-> "ok",
                        value |-> findQueueFamilies(gpu.device, junk)]
       ELSE /\ gpu' = [gpu EXCEPT !.suitable = "false"]
            /\ last' = [op |-> "VulkanDevice::pickPhysicalDevice", ret |-> "throw"]
  /\ UNCHANGED <<native, rm, cpm, alive, log, cap, keys, hist, builder, transfer, sync>>

NextQueues ==
  \/ VulkanDevice_findQueueFamilies
  \/ VulkanDevice_isDeviceSuitable
  \/ VulkanDevice_pickPhysicalDevice

SpecQueues == InitQueues /\ [][NextQueues]_vars

(***************************************************************************)
(* Properties of queue-family discovery.                                   *)
(***************************************************************************)

\* The indices of the queue families of the device that advertise a flag.
Advertising(flag) ==
  {i \in 0..(Len(gpu.device.queueFamilies) - 1) : flag \in gpu.device.queueFamilies[i + 1]}

First(S) == CHOOSE i \in S : \A j \in S : i <= j

FamilyOf(indices, flag) ==
  CASE flag = "GRAPHICS" -> indices.graphicsFamily
    [] flag = "COMPUTE"  -> indices.computeFamily
    [] flag = "TRANSFER" -> indices.transferFamily

HasFamily(indices, flag) ==
  CASE flag = "GRAPHICS" -> indices.hasGraphics
    [] flag = "COMPUTE"  -> indices.hasCompute
    [] flag = "TRANSFER" -> indices.hasTransfer

\* The queue family indices a call has just produced.
Discovered ==
  last.op \in {"VulkanDevice::findQueueFamilies", "VulkanDevice::pickPhysicalDevice"}
    /\ last.ret = "ok"

\* C24: the indices queue-family discovery produces name, for each of the
\* graphics, compute and transfer flags, the first queue family that
\* advertises the flag; when no family advertises compute (transfer), compute
\* (transfer) gets the graphics family and is available exactly when graphics
\* is.
C24_FirstMatchWithGraphicsFallback ==
  Discovered =>
    /\ \A flag \in QueueFlags :
         Advertising(flag) # {} =>
           /\ HasFamily(last.value, flag)
           /\ FamilyOf(last.value, flag) = First(Advertising(flag))
    /\ \A flag \in {"COMPUTE", "TRANSFER"} :
         Advertising(flag) = {} =>
           /\ HasFamily(last.value, flag) = (Advertising("GRAPHICS") # {})
           /\ Advertising("GRAPHICS") # {} =>
                FamilyOf(last.value, flag) = First(Advertising("GRAPHICS"))

\* A device whose first graphics family is not family 0 and that has no
\* compute family: compute fell back to the graphics family.
C24_Witness ==
  /\ Discovered
  /\ Advertising("COMPUTE") = {}
  /\ Advertising("GRAPHICS") # {} /\ First(Advertising("GRAPHICS")) = 1
  /\ Cardinality(Advertising("GRAPHICS")) = 2
  /\ Advertising("TRANSFER") # {} /\ First(Advertising("TRANSFER")) = 0
  /\ last.value.computeFamily = 1

(***************************************************************************)
(* A caller that builds pipelines, each with a layout of its own or with   *)
(* the layout of an earlier pipeline passed to setLayout, under the names  *)
(* of its choice, clears some of them and destroys the context.            *)
(***************************************************************************)
InitPipelines == InitWith(MaxCreates, MaxNames)

NextPipelines ==
  \/ \E cfg \in GraphicsPipelineConfigs, name \in keys : GraphicsPipelineBuilder_build(cfg, name)
  \/ \E cfg \in ComputePipelineConfigs, name \in keys : ComputePipelineBuilder_build(cfg, name)
  \/ \E type \in ObjectTypes : \E name \in KeysOf(type) : ClearResource(name, type)
  \/ \E ord \in CleanupOrders(rm) : DestroyContext(ord)

SpecPipelines == InitPipelines /\ [][NextPipelines]_vars

(***************************************************************************)
(* Destruction of native handles by the ResourceManager.                   *)
(***************************************************************************)

\* The ResourceManager's own destroying operations.
ManagerDestroys == {"clearResource", "VulkanContext::cleanup"}

\* C25: the ResourceManager never destroys the same native handle twice: no
\* clearResource call and no cleanup destroys a handle that was destroyed
\* before or destroys one handle more than once; in particular a pipeline
\* layout passed to setLayout and registered with two named pipelines is
\* destroyed at most once.
C25_NoHandleDestroyedTwice ==
  [][last'.op \in ManagerDestroys =>
       \A h \in DOMAIN native : native'[h].n # native[h].n => native'[h].n = 1]_vars

(***************************************************************************)
(* Properties of ImageBuilder::buildAndInitialize.                         *)
(***************************************************************************)

\* A command buffer allocated in this step holds a barrier between the two
\* layouts.
BarrierRecorded(oldLayout, newLayout) ==
  \E commandBuffer \in (Len(dev.cb) + 1)..Len(dev'.cb) :
    \E i \in 1..Len(dev'.cb[commandBuffer].cmds) :
      /\ dev'.cb[commandBuffer].cmds[i].cmd = "vkCmdPipelineBarrier"
      /\ dev'.cb[commandBuffer].cmds[i].oldLayout = oldLayout
      /\ dev'.cb[commandBuffer].cmds[i].newLayout = newLayout

\* C26: buildAndInitialize of an image with the initial layout UNDEFINED and
\* the final layout SHADER_READ_ONLY_OPTIMAL, in which no native call fails,
\* does not throw, and the transition to the final layout is recorded from
\* TRANSFER_DST_OPTIMAL.
C26_UploadReachesShaderReadOnly ==
  [][(/\ last'.op = "ImageBuilder::buildAndInitialize"
      /\ app'.calls = app.calls + 1
      /\ app.oldLayout = "UNDEFINED"
      /\ app.newLayout = "SHADER_READ_ONLY_OPTIMAL"
      /\ ~last'.failed)
       => /\ last'.ret = "ok"
          /\ BarrierRecorded("TRANSFER_DST_OPTIMAL", "SHADER_READ_ONLY_OPTIMAL")]_vars

(***************************************************************************)
(* Native objects of a build that throws.                                  *)
(***************************************************************************)

BuildCalls ==
  {"BufferBuilder::build", "ImageBuilder::build", "SamplerBuilder::build",
   "ShaderModuleBuilder::build", "RenderPassBuilder::build", "FramebufferBuilder::build",
   "DescriptorSetBuilder::createLayout", "DescriptorSetBuilder::build",
   "DescriptorSetBuilder::buildWithLayout", "CommandBufferBuilder::build",
   "ComputePipelineBuilder::build", "GraphicsPipelineBuilder::build"}

\* C27: when a build call throws, every native object it created has been
\* destroyed or is held by a record of the ResourceManager.
C27_FailedBuildLeavesNothing ==
  [][(last'.op \in BuildCalls /\ last'.ret = "throw")
       => \A h \in DOMAIN native' \ DOMAIN native :
            native'[h].n > 0 \/ h \in TrackedHandles(rm')]_vars

(***************************************************************************)
(* Command buffers of a rejected layout transition.                        *)
(***************************************************************************)

\* The transition helpers that allocate a single-time command buffer of
\* their own.
AllocatingHelpers ==
  {"transitionImageLayoutWithoutCommandBuffer", "transitionImageLayoutWithInfo"}

\* The helper called in this step rejected its pair of layouts: it threw and
\* no native call had failed.
RejectsPair(helper) ==
  /\ last'.op = helper /\ app'.calls = app.calls + 1
  /\ last'.ret = "throw" /\ ~last'.failed

\* C28: when a helper that allocates its own single-time command buffer
\* rejects an unsupported pair of layouts, every command buffer it allocated
\* has been freed.
C28_RejectionFreesCommandBuffer ==
  [][\A helper \in AllocatingHelpers :
       RejectsPair(helper) =>
         \A commandBuffer \in (Len(dev.cb) + 1)..Len(dev'.cb) :
           dev'.cb[commandBuffer].frees = 1]_vars

(***************************************************************************)
(* A caller that has added the attachments of its render pass, one more    *)
(* than SpecSetters adds so that two subpasses can refer to different      *)
(* ones, and now describes the subpasses and builds.                       *)
(***************************************************************************)
InitSubpasses ==
  /\ native = vkCreate([x \in {} |-> [n |-> 0, deps |-> {}]], <<"commandPool", 1>>, {})
  /\ rm = NewResourceManager
  /\ cpm = [m_commandPools |-> << >>, m_singleTimeCommandPool |-> <<"commandPool", 1>>]
  /\ alive = TRUE
  /\ log = << >>
  /\ last = [op |-> "RenderPassBuilder::addColorAttachment", ret |-> "self", arg |-> "format"]
  /\ cap = 1
  /\ hist = [registered |-> {}, swept |-> {}, displaced |-> {}]
  /\ keys = Names(1)
  /\ builder = [NewRenderPassBuilder EXCEPT !.m_attachments = MaxAttachments + 1]
  /\ dev = NewDevice
  /\ app = NoTransfer
  /\ gpu = NoPhysicalDevice
  /\ sync = NoSynchronizationManager

NextSubpasses ==
  \/ BeginSubpass
  \/ AddColorReference
  \/ SetDepthStencilReference
  \/ AddInputReference
  \/ AddPreserveReference
  \/ EndSubpass
  \/ BuildRenderPass

SpecSubpasses == InitSubpasses /\ [][NextSubpasses]_vars

(***************************************************************************)
(* The references of a finalized subpass.                                  *)
(***************************************************************************)

\* What the description of the i-th subpass of `b` refers to, read through
\* its pointers: the color, input and preserve reference arrays and the
\* depth/stencil reference.
SubpassView(b, i) ==
  LET s == b.m_subpasses[i]
      At(all, p) == IF p = 0 THEN << >> ELSE all[p]
  IN [color |-> At(b.m_allColorRefs, s.pColorAttachments),
      input |-> At(b.m_allInputRefs, s.pInputAttachments),
      preserve |-> At(b.m_allPreserveRefs, s.pPreserveAttachments),
      depthStencil |-> IF s.pDepthStencilAttachment THEN <<b.m_depthStencilRef>> ELSE << >>]

\* The subpasses of `b` that endSubpass has finalized.
FinalizedSubpasses(b) ==
  {i \in 1..Len(b.m_subpasses) : i < Len(b.m_subpasses) \/ ~b.m_inSubpass}

\* C29: no call on a RenderPassBuilder changes what the description of a
\* subpass already finalized by endSubpass refers to.
C29_FinalizedReferencesStay ==
  [][(builder.kind = "RenderPassBuilder" /\ builder'.kind = "RenderPassBuilder")
       => \A i \in FinalizedSubpasses(builder) :
            SubpassView(builder', i) = SubpassView(builder, i)]_vars

(***************************************************************************)
(* SynchronizationManager.  Its semaphores and fences are native objects   *)
(* of kind "semaphore" and "fence"; the per-frame vectors are sequences of *)
(* handles and the two maps go from names to handles.                      *)
(***************************************************************************)

\* Calls on a SynchronizationManager before it is destroyed.
MaxSyncCalls == 3

\* The largest framesInFlight a caller passes.
MaxFrames == 2

NewSynchronizationManager ==
  [kind |-> "SynchronizationManager", calls |-> 0,
   m_imageAvailableSemaphores |-> << >>, m_renderFinishedSemaphores |-> << >>,
   m_inFlightFences |-> << >>, m_semaphores |-> EmptyMap, m_fences |-> EmptyMap]

\* What a call leaves behind: the manager, the native objects, whether it
\* threw and the handle it returned.
Synced(s, nat, threw, value) == [sync |-> s, native |-> nat, threw |-> threw, value |-> value]

\* VkSemaphore SynchronizationManager::createSemaphore(name); fail: the
\* status of vkCreateSemaphore is not VK_SUCCESS.
createSemaphore(s, nat, name, fail) ==
  LET semaphore == NewHandle(nat, "semaphore") IN
    IF fail THEN Synced(s, nat, TRUE, Null)
    ELSE Synced(IF name # "" THEN [s EXCEPT !.m_semaphores = Put(@, name, semaphore)] ELSE s,
                vkCreate(nat, semaphore, {}), FALSE, semaphore)

\* VkFence SynchronizationManager::createFence(signaled, name)
createFence(s, nat, name, fail) ==
  LET fence == NewHandle(nat, "fence") IN
    IF fail THEN Synced(s, nat, TRUE, Null)
    ELSE Synced(IF name # "" THEN [s EXCEPT !.m_fences = Put(@, name, fence)] ELSE s,
                vkCreate(nat, fence, {}), FALSE, fence)

\* std::vector<Handle>::resize(n): new elements are VK_NULL_HANDLE, elements
\* past n are dropped.
Resize(v, n) == [i \in 1..n |-> IF i <= Len(v) THEN v[i] ELSE Null]

\* The loop of createFrameSynchronization from its k-th create call on; the
\* failAt-th create call fails (0: none does).
RECURSIVE FrameLoop(_, _, _, _, _)
FrameLoop(s, nat, k, framesInFlight, failAt) ==
  LET i == ((k - 1) \div 3) + 1 IN
    IF k > 3 * framesInFlight THEN Synced(s, nat, FALSE, Null)
    ELSE IF (k - 1) % 3 = 0
    THEN Bind(createSemaphore(s, nat, "", k = failAt), LAMBDA o :
           IF o.threw THEN o
           ELSE FrameLoop([o.sync EXCEPT !.m_imageAvailableSemaphores[i] = o.value],
                          o.native, k + 1, framesInFlight, failAt))
    ELSE IF (k - 1) % 3 = 1
    THEN Bind(createSemaphore(s, nat, "", k = failAt), LAMBDA o :
           IF o.threw THEN o
           ELSE FrameLoop([o.sync EXCEPT !.m_renderFinishedSemaphores[i] = o.value],
                          o.native, k + 1, framesInFlight, failAt))
    ELSE Bind(createFence(s, nat, "", k = failAt), LAMBDA o :
           IF o.threw THEN o
           ELSE FrameLoop([o.sync EXCEPT !.m_inFlightFences[i] = o.value],
                          o.native, k + 1, framesInFlight, failAt))

\* void SynchronizationManager::createFrameSynchronization(framesInFlight)
createFrameSynchronization(s, nat, framesInFlight, failAt) ==
  FrameLoop([s EXCEPT !.m_imageAvailableSemaphores = Resize(@, framesInFlight),
                      !.m_renderFinishedSemaphores = Resize(@, framesInFlight),
                      !.m_inFlightFences = Resize(@, framesInFlight)],
            nat, 1, framesInFlight, failAt)

\* The values of a map in the order a range-for visits them.
ValuesOf(m) ==
  LET ord == CHOOSE o \in Orders(DOMAIN m) : TRUE IN [i \in DOMAIN ord |-> m[ord[i]]]

\* The native calls of SynchronizationManager::cleanup; destroySemaphore and
\* destroyFence skip a null handle.
SyncCleanupCalls(s) ==
  LET semaphores == s.m_imageAvailableSemaphores \o s.m_renderFinishedSemaphores
      named == ValuesOf(s.m_semaphores)
      namedFences == ValuesOf(s.m_fences)
  IN [i \in DOMAIN semaphores |-> Call("vkDestroySemaphore", semaphores[i])]
       \o [i \in DOMAIN s.m_inFlightFences |-> Call("vkDestroyFence", s.m_inFlightFences[i])]
       \o [i \in DOMAIN named |-> Call("vkDestroySemaphore", named[i])]
       \o [i \in DOMAIN namedFences |-> Call("vkDestroyFence", namedFences[i])]

\* void SynchronizationManager::cleanup(), called by the destructor.
SynchronizationManager_cleanup(s, nat) ==
  Synced([s EXCEPT !.kind = "destroyed",
                   !.m_imageAvailableSemaphores = << >>, !.m_renderFinishedSemaphores = << >>,
                   !.m_inFlightFences = << >>, !.m_semaphores = EmptyMap, !.m_fences = EmptyMap],
         vkDestroyAll(nat, SyncCleanupCalls(s)), FALSE, Null)

\* One call on the manager of the run.
SyncCall(op, o) ==
  /\ sync' = [o.sync EXCEPT !.calls = @ + 1]
  /\ native' = o.native
  /\ last' = Result(op, ThrowStr(o.threw))
  /\ UNCHANGED <<rm, cpm, alive, log, cap, keys, hist, builder, transfer, gpu>>

\* The caller may make another call: an exception ends its work with the
\* manager.
CanSync ==
  /\ sync.kind = "SynchronizationManager"
  /\ sync.calls < MaxSyncCalls
  /\ last.ret # "throw"

CreateSemaphore ==
  /\ CanSync
  /\ \E name \in keys, fail \in BOOLEAN :
       \E o \in {createSemaphore(sync, native, name, fail)} :
         SyncCall("SynchronizationManager::createSemaphore", o)

CreateFence ==
  /\ CanSync
  /\ \E name \in keys, fail \in BOOLEAN :
       \E o \in {createFence(sync, native, name, fail)} :
         SyncCall("SynchronizationManager::createFence", o)

CreateFrameSynchronization ==
  /\ CanSync
  /\ \E framesInFlight \in 0..MaxFrames :
       \E failAt \in 0..(3 * framesInFlight) :
         \E o \in {createFrameSynchronization(sync, native, framesInFlight, failAt)} :
           SyncCall("SynchronizationManager::createFrameSynchronization", o)

\* ~SynchronizationManager(); it also runs after a call has thrown.
DestroySynchronizationManager ==
  /\ sync.kind = "SynchronizationManager"
  /\ \E o \in {SynchronizationManager_cleanup(sync, native)} :
       SyncCall("SynchronizationManager::~SynchronizationManager", o)

\* A SynchronizationManager after construction, on a device with no
\* semaphore and no fence.
InitSync ==
  /\ native = vkCreate([x \in {} |-> [n |-> 0, deps |-> {}]], <<"commandPool", 1>>, {})
  /\ rm = NewResourceManager
  /\ cpm = [m_commandPools |-> << >>, m_singleTimeCommandPool |-> <<"commandPool", 1>>]
  /\ alive = TRUE
  /\ log = << >>
  /\ last = Result("VulkanContext::initialize", "ok")
  /\ cap = 0
  /\ hist = [registered |-> {}, swept |-> {}, displaced |-> {}]
  /\ keys = Names(1)
  /\ builder = NoBuilder
  /\ dev = NewDevice
  /\ app = NoTransfer
  /\ gpu = NoPhysicalDevice
  /\ sync = NewSynchronizationManager

NextSync ==
  \/ CreateSemaphore
  \/ CreateFence
  \/ CreateFrameSynchronization
  \/ DestroySynchronizationManager

SpecSync == InitSync /\ [][NextSync]_vars

(***************************************************************************)
(* Properties of the SynchronizationManager.                               *)
(***************************************************************************)

SyncHandles == HandlesOf("semaphore") \cup HandlesOf("fence")

\* C30: once the manager is destroyed, every semaphore and fence created
\* through it, named, unnamed or per-frame, has been destroyed exactly once.
C30_AllDestroyedExactlyOnce ==
  sync.kind = "destroyed" => \A h \in SyncHandles : native[h].n = 1

====
